---- MODULE Spec2Model ----
(***************************************************************************)
(* A model of belong, a static site generator: front-matter parsing,       *)
(* include directives, project assembly.  Text is a sequence of one        *)
(* character strings; every parser is computed character by character.     *)
(***************************************************************************)
EXTENDS Integers, Sequences, FiniteSets, TLC

VARIABLES
    pc,             \* the position of the operation under way
    s,              \* RawPage::from_str: the document text
    raw_page,       \* RawPage::from_str: its Result
    front_matter,   \* Display for FrontMatter: the FrontMatter written
    parts,          \* LineRange::from_str: the range text of a directive, if any
    line_range,     \* a LineRange, or the Result of LineRange::from_str
    contents,       \* Include::extract: the contents of the target file
    extracted,      \* Include::extract: the text returned
    page,           \* Page::preprocess: the page (path, front_matter, contents)
    directives,     \* preprocess: the directives found and not yet resolved
    new_contents,   \* preprocess: the output built so far
    previous_end,   \* preprocess: the position after the last directive resolved
    substituted,    \* preprocess: the directives resolved so far, each with its text
    log,            \* the warnings logged
    new_page,       \* Page::preprocess: its Result
    tree,           \* Project::from_path: the files under the root directory
    visited,        \* Project::from_path: the entries of the walk taken so far
    config,         \* Project::from_path: the Result of loading the config
    theme,          \* Project::from_path: the Result of loading the theme
    pages,          \* Project::from_path: the pages collected so far
    reads,          \* Project::from_path: the files read so far
    project,        \* Project::from_path: its Result
    self_path,      \* Page::url_path, Page::url_path_to_root: the path of the page
    url,            \* Page::url_path: its outcome
    root_url,       \* Page::url_path_to_root: its outcome
    event,          \* fix_markdown_links: the event given
    fixed,          \* fix_markdown_links: the event returned
    rendering,      \* Theme::render: the theme, the config and the pages given
    templates,      \* Theme::render: the templates registered with the engine
    base_ctx,       \* Theme::render: the context of the index template
    page_ctx,       \* Theme::render: the context of the page template
    pages_ctx,      \* Theme::render: the page contexts accumulated
    output,         \* Theme::render: the files pushed to the Output so far
    renders,        \* Theme::render: the template renders made, in order
    rendered,       \* Theme::render: its Result
    output_dir,     \* Output::to_path: the files of the output directory
    written,        \* Output::to_path: its Result
    fs_log          \* Output::to_path: the operations made on the output directory

rawVars == <<s, raw_page, front_matter>>
rangeVars == <<parts, line_range, contents, extracted>>
preVars == <<page, directives, new_contents, previous_end, substituted, log, new_page>>
projVars == <<tree, visited, config, theme, pages, reads, project>>
vars == <<pc, s, raw_page, front_matter, parts, line_range, contents, extracted,
          page, directives, new_contents, previous_end, substituted, log, new_page,
          tree, visited, config, theme, pages, reads, project,
          self_path, url, root_url, event, fixed,
          rendering, templates, base_ctx, page_ctx, pages_ctx, output, renders,
          rendered, output_dir, written, fs_log>>
urlVars == <<self_path, url, root_url, event, fixed>>
renderVars == <<rendering, templates, base_ctx, page_ctx, pages_ctx, output, renders,
                rendered, output_dir, written, fs_log>>

\* the variables of the other operations, idle
IdleRaw ==
    s = [tag |-> "none"] /\ raw_page = [tag |-> "none"] /\ front_matter = [tag |-> "none"]
IdleRange ==
    /\ parts = [tag |-> "none"] /\ line_range = [tag |-> "none"]
    /\ contents = [tag |-> "none"] /\ extracted = [tag |-> "none"]
IdlePre ==
    /\ page = [tag |-> "none"] /\ directives = <<>> /\ new_contents = <<>>
    /\ previous_end = 1 /\ substituted = <<>> /\ log = <<>>
    /\ new_page = [tag |-> "none"]
IdleProj ==
    /\ tree = [tag |-> "none"] /\ visited = 0 /\ config = [tag |-> "none"]
    /\ theme = [tag |-> "none"] /\ pages = <<>> /\ reads = <<>>
    /\ project = [tag |-> "none"]
IdleUrl ==
    /\ self_path = [tag |-> "none"] /\ url = [tag |-> "none"] /\ root_url = [tag |-> "none"]
    /\ event = [tag |-> "none"] /\ fixed = [tag |-> "none"]
IdleRender ==
    /\ rendering = [tag |-> "none"] /\ templates = [tag |-> "none"]
    /\ base_ctx = [tag |-> "none"] /\ page_ctx = [tag |-> "none"]
    /\ pages_ctx = <<>> /\ output = <<>> /\ renders = <<>>
    /\ rendered = [tag |-> "none"] /\ output_dir = [tag |-> "none"]
    /\ written = [tag |-> "none"] /\ fs_log = <<>>

(***************************************************************************)
(* Bounds                                                                  *)
(***************************************************************************)
\* the number of tokens a generated document is made of
MaxDocTokens == 5
\* the number of characters of a generated range text
MaxRangeLen == 4
\* the number of characters of a generated include target
MaxFileLen == 5
\* the largest line number of a generated LineRange
MaxLine == 3
\* the largest line number the claims about range texts are stated for
MaxNumber == 22
\* the number of pieces (texts and directive markers) a generated page is made of
MaxPieces == 3

(***************************************************************************)
(* Text helpers                                                            *)
(***************************************************************************)
NoResult == [tag |-> "none"]

Max(S) == CHOOSE x \in S : \A y \in S : y <= x
Min(S) == CHOOSE x \in S : \A y \in S : x <= y

\* the text t[i..j] as far as t goes, empty when j < i
Sub(t, i, j) ==
    LET last == IF j > Len(t) THEN Len(t) ELSE j
    IN IF last < i THEN <<>> ELSE SubSeq(t, i, last)

\* does the text p stand in t at position i
At(t, i, p) == i >= 1 /\ i + Len(p) - 1 <= Len(t) /\ Sub(t, i, i + Len(p) - 1) = p

RECURSIVE Concat(_)
Concat(ts) == IF ts = <<>> THEN <<>> ELSE Head(ts) \o Concat(Tail(ts))

\* every sequence of at most n elements of S
RECURSIVE SeqsUpTo(_, _)
SeqsUpTo(S, n) ==
    IF n = 0 THEN {<<>>}
    ELSE LET shorter == SeqsUpTo(S, n - 1)
         IN shorter \cup {Append(q, x) : q \in {r \in shorter : Len(r) = n - 1}, x \in S}

\* the regex class \s, on the characters of the model
IsSpace(c) == c \in {" ", "\n", "\r"}

\* the first position at or after i that holds no \s character
RECURSIVE SkipSpace(_, _)
SkipSpace(t, i) == IF i <= Len(t) /\ IsSpace(t[i]) THEN SkipSpace(t, i + 1) ELSE i

\* a variant that takes one newline only
SkipNewlines_one(t, i) ==
    IF At(t, i, <<"\n">>) THEN i + 1
    ELSE IF At(t, i, <<"\r", "\n">>) THEN i + 2
    ELSE i

\* the position after the longest run of `\r?\n` that starts at i
RECURSIVE SkipNewlines(_, _)
SkipNewlines(t, i) ==
    IF At(t, i, <<"\n">>) THEN SkipNewlines(t, i + 1)
    ELSE IF At(t, i, <<"\r", "\n">>) THEN SkipNewlines(t, i + 2)
    ELSE i

(***************************************************************************)
(* toml::from_str, as far as the characters of the model go: blank lines,  *)
(* `key = value` lines and `[table]` lines, the values being integers,     *)
(* `nan` and one-line or multi-line strings without escapes; `\r\n` is     *)
(* folded to a newline, any other character outside a string is an error   *)
(* reported with the line and column of its offset.                        *)
(***************************************************************************)
\* a variant that counts the column from zero
TomlLinecol_zero(b, off) ==
    LET nls == {k \in 1..off : b[k] = "\n"}
    IN [line |-> Cardinality(nls) + 1,
        col  |-> off - (IF nls = {} THEN 0 ELSE Max(nls))]

TomlLinecol(b, off) ==
    LET nls == {k \in 1..off : b[k] = "\n"}
    IN [line |-> Cardinality(nls) + 1,
        col  |-> off - (IF nls = {} THEN 0 ELSE Max(nls)) + 1]

TomlErr(b, pos, msg) ==
    LET lc == TomlLinecol(b, pos - 1)
    IN [ok |-> FALSE, err |-> [msg |-> msg, line |-> lc.line, col |-> lc.col]]

RECURSIVE SkipBlank(_, _)
SkipBlank(b, i) == IF i <= Len(b) /\ b[i] = " " THEN SkipBlank(b, i + 1) ELSE i

\* the characters of bare keys and of numbers: a digit and the letters of
\* the keys of the model
KeyChars ==
    {"1", "a", "c", "d", "e", "i", "j", "k", "l", "n", "o", "p", "r", "s", "t", "x"}

RECURSIVE KeylikeEnd(_, _)
KeylikeEnd(b, i) == IF i <= Len(b) /\ b[i] \in KeyChars THEN KeylikeEnd(b, i + 1) ELSE i

IsQuote(c) == c = "'" \/ c = "\""

TomlFound(b, i) ==
    IF i > Len(b) THEN "eof"
    ELSE IF b[i] = "\n" \/ At(b, i, <<"\r", "\n">>) THEN "a newline"
    ELSE IF b[i] \in KeyChars THEN "an identifier"
    ELSE IF b[i] = "=" THEN "an equals"
    ELSE IF b[i] = "+" THEN "a plus"
    ELSE IF b[i] = "[" THEN "a left bracket"
    ELSE IF b[i] = "]" THEN "a right bracket"
    ELSE IF IsQuote(b[i]) THEN "a string"
    ELSE "unexpected character"

TomlWanted(b, i, expected) ==
    IF TomlFound(b, i) = "unexpected character"
    THEN TomlErr(b, i, "unexpected character found")
    ELSE TomlErr(b, i, "expected " \o expected \o ", found " \o TomlFound(b, i))

\* the string whose text starts at start, after its opening quotes
TomlStringFrom(b, v, multi, start, closes, nls) ==
    IF ~multi /\ nls # {} /\ (closes = {} \/ Min(nls) < Min(closes))
    THEN TomlErr(b, Min(nls), "newline in string found")
    ELSE IF closes = {} THEN TomlErr(b, v, "unterminated string")
    ELSE [ok |-> TRUE, val |-> Sub(b, start, Min(closes) - 1),
          end |-> Min(closes) + (IF multi THEN 3 ELSE 1)]

\* the string that opens at v with the quote q, one-line or multi-line, the
\* text of which starts at start
TomlStringOf(b, v, q, multi, start) ==
    TomlStringFrom(b, v, multi, start,
                   {c \in start..Len(b) : IF multi THEN At(b, c, <<q, q, q>>) ELSE b[c] = q},
                   {c \in start..Len(b) : b[c] = "\n"})

\* the string that opens at v with a quote: three quotes open a multi-line
\* string, whose first newline is trimmed; a one-line string ends before
\* the next newline
TomlString(b, v) ==
    IF ~At(b, v, <<b[v], b[v], b[v]>>) THEN TomlStringOf(b, v, b[v], FALSE, v + 1)
    ELSE TomlStringOf(b, v, b[v], TRUE, IF At(b, v + 3, <<"\n">>) THEN v + 4 ELSE v + 3)

\* a key: bare, or a one-line string
TomlKey(b, j) ==
    IF j <= Len(b) /\ b[j] \in KeyChars
    THEN [ok |-> TRUE, val |-> Sub(b, j, KeylikeEnd(b, j) - 1), end |-> KeylikeEnd(b, j)]
    ELSE IF j <= Len(b) /\ IsQuote(b[j])
    THEN IF At(b, j, <<b[j], b[j], b[j]>>)
         THEN TomlErr(b, j, "multiline strings are not allowed for key")
         ELSE TomlString(b, j)
    ELSE TomlWanted(b, j, "a table key")

IsInteger(t) == t # <<>> /\ \A k \in 1..Len(t) : t[k] = "1"

NaN == <<"n", "a", "n">>

\* a string read as a value
TomlStringValue(str) ==
    IF str.ok THEN [ok |-> TRUE, type |-> "string", val |-> str.val, end |-> str.end]
    ELSE str

\* the number that starts at v, its digits standing between d and ve
TomlNumber(b, v, signed, d, ve) ==
    IF signed /\ ve = d THEN TomlErr(b, v, "invalid number")
    ELSE IF ve = d /\ v > Len(b) THEN TomlErr(b, v, "unexpected eof encountered")
    ELSE IF ve = d THEN TomlWanted(b, v, "a value")
    ELSE IF Sub(b, d, ve - 1) = NaN
         THEN [ok |-> TRUE, type |-> "float", val |-> NaN, end |-> ve]
    ELSE IF ~IsInteger(Sub(b, d, ve - 1)) THEN TomlErr(b, v, "invalid number")
    ELSE [ok |-> TRUE, type |-> "integer", val |-> Sub(b, d, ve - 1), end |-> ve]

\* the value that starts at v
TomlValue(b, v) ==
    IF v <= Len(b) /\ IsQuote(b[v]) THEN TomlStringValue(TomlString(b, v))
    ELSE IF At(b, v, <<"+">>) THEN TomlNumber(b, v, TRUE, v + 1, KeylikeEnd(b, v + 1))
    ELSE TomlNumber(b, v, FALSE, v, KeylikeEnd(b, v))

\* an entry of a document: a value under a top-level key (sub is empty), a
\* table under a top-level key, or a value under a key of such a table
Entry(key, sub, type, val) == [key |-> key, sub |-> sub, type |-> type, val |-> val]

Defined(entries, key, sub) ==
    \E k \in 1..Len(entries) : entries[k].key = key /\ entries[k].sub = sub

\* after a line: blanks, then a newline or the end of the text
TomlEndOfLine(b, nl, line) ==
    IF ~(TomlFound(b, nl) \in {"eof", "a newline"}) THEN TomlWanted(b, nl, "newline")
    ELSE [ok |-> TRUE, line |-> line, end |-> nl]

\* a line `[key]` after its key
TomlHeaderClose(b, header, close) ==
    IF ~header.ok THEN header
    ELSE IF ~At(b, close, <<"]">>) THEN TomlWanted(b, close, "a right bracket")
    ELSE TomlEndOfLine(b, SkipBlank(b, close + 1),
                       [key |-> header.val, type |-> "table", val |-> <<>>])

TomlHeaderKey(b, header) ==
    TomlHeaderClose(b, header, IF header.ok THEN SkipBlank(b, header.end) ELSE 0)

\* the line `[key]` that starts at j
TomlHeaderLine(b, j) == TomlHeaderKey(b, TomlKey(b, SkipBlank(b, j + 1)))

\* a line `key = value` after its value
TomlValueEnd(b, key, value) ==
    IF ~value.ok THEN value
    ELSE TomlEndOfLine(b, SkipBlank(b, value.end),
                       [key |-> key, type |-> value.type, val |-> value.val])

\* a line `key = value` after its key
TomlEquals(b, key, eq) ==
    IF ~key.ok THEN key
    ELSE IF ~At(b, eq, <<"=">>) THEN TomlWanted(b, eq, "an equals")
    ELSE TomlValueEnd(b, key.val, TomlValue(b, SkipBlank(b, eq + 1)))

TomlPairKey(b, key) == TomlEquals(b, key, IF key.ok THEN SkipBlank(b, key.end) ELSE 0)

\* the line `key = value` that starts at j
TomlKeyValueLine(b, j) == TomlPairKey(b, TomlKey(b, j))

RECURSIVE TomlLines(_, _, _, _)

\* a line has been read at j: a header opens a table, a pair is an entry of
\* the table under way or of the top level
TomlLine(b, j, entries, cur, line, top, sub) ==
    IF ~line.ok THEN line
    ELSE IF Defined(entries, top, sub)
    THEN TomlErr(b, j, IF line.line.type = "table" THEN "redefinition of table"
                       ELSE "duplicate key")
    ELSE TomlLines(b, line.end, Append(entries, Entry(top, sub, line.line.type, line.line.val)),
                   IF line.line.type = "table" THEN <<top>> ELSE cur)

TomlLineAt(b, j, entries, cur, line) ==
    TomlLine(b, j, entries, cur, line,
             IF ~line.ok THEN <<>>
             ELSE IF line.line.type = "table" \/ cur = <<>> THEN line.line.key ELSE cur[1],
             IF ~line.ok \/ line.line.type = "table" \/ cur = <<>> THEN <<>>
             ELSE <<line.line.key>>)

\* the lines of b from position j on, which is no blank
TomlLinesFrom(b, j, entries, cur) ==
    IF j > Len(b) THEN [ok |-> TRUE, table |-> entries]
    ELSE IF b[j] = "\n" THEN TomlLines(b, j + 1, entries, cur)
    ELSE IF At(b, j, <<"\r", "\n">>) THEN TomlLines(b, j + 2, entries, cur)
    ELSE IF b[j] = "[" THEN TomlLineAt(b, j, entries, cur, TomlHeaderLine(b, j))
    ELSE TomlLineAt(b, j, entries, cur, TomlKeyValueLine(b, j))

\* parses the lines of b from position i on; entries are the entries read,
\* in the order of the document, and cur is the table under way, if any
TomlLines(b, i, entries, cur) == TomlLinesFrom(b, SkipBlank(b, i), entries, cur)

toml_from_str(b) == TomlLines(b, 1, <<>>, <<>>)

(***************************************************************************)
(* FrontMatter and RawPage                                                 *)
(***************************************************************************)
None == [some |-> FALSE]
Some(v) == [some |-> TRUE, val |-> v]

Title == <<"t", "i", "t", "l", "e">>
Description == <<"d", "e", "s", "c", "r", "i", "p", "t", "i", "o", "n">>
Date == <<"d", "a", "t", "e">>
Kind == <<"k", "i", "n", "d">>

\* the keys FrontMatter names; every other key is flattened into rest
RecognisedKeys == {Title, Description, Date, Kind}

FrontMatter_default ==
    [title |-> None, description |-> None, date |-> None, kind |-> None, rest |-> {}]

\* the name serde gives to the type of a value
TypeName(type) == IF type = "table" THEN "map" ELSE type

\* the entry of a key, under the top level or under a table
EntryOf(entries, key, sub) ==
    entries[CHOOSE k \in 1..Len(entries) : entries[k].key = key /\ entries[k].sub = sub]

\* a field of type Option<String>, given the entry of its key
OptionStringOf(e, key) ==
    IF e.type = "string" THEN [ok |-> TRUE, val |-> Some(e.val)]
    ELSE [ok |-> FALSE,
          err |-> [msg |-> "invalid type: " \o TypeName(e.type) \o ", expected a string",
                   key |-> key]]

\* a field of type Option<String>
OptionString(entries, key, sub) ==
    IF ~Defined(entries, key, sub) THEN [ok |-> TRUE, val |-> None]
    ELSE OptionStringOf(EntryOf(entries, key, sub), IF sub = <<>> THEN key ELSE sub[1])

DecChars == <<"0", "1", "2", "3", "4", "5", "6", "7", "8", "9">>

IsDigit(c) == \E n \in 1..10 : DecChars[n] = c

DigitOf(c) == (CHOOSE n \in 1..10 : DecChars[n] = c) - 1

RECURSIVE DecValue(_)
DecValue(t) == IF t = <<>> THEN 0 ELSE DecValue(Sub(t, 1, Len(t) - 1)) * 10 + DigitOf(t[Len(t)])

\* the decimal digits of n, to the width w at least
RECURSIVE DecText(_, _)
DecText(n, w) ==
    IF n < 10 /\ w <= 1 THEN <<DecChars[n + 1]>>
    ELSE DecText(n \div 10, w - 1) \o <<DecChars[(n % 10) + 1]>>

DaysIn(year, month) ==
    IF month \in {4, 6, 9, 11} THEN 30
    ELSE IF month # 2 THEN 31
    ELSE IF year % 4 = 0 /\ (year % 100 # 0 \/ year % 400 = 0) THEN 29 ELSE 28

\* a date of the year, the month and the day written
NaiveDate_from_ymd(t, y, m, d) ==
    IF \/ \E k \in 1..Len(t) : ~IsDigit(t[k]) /\ t[k] # "-"
       \/ y = <<>> \/ m = <<>> \/ d = <<>> \/ Len(m) > 2 \/ Len(d) > 2
    THEN [ok |-> FALSE, err |-> [msg |-> "input contains invalid characters", key |-> Date]]
    ELSE IF \/ DecValue(m) \notin 1..12
            \/ DecValue(d) \notin 1..DaysIn(DecValue(y), DecValue(m))
    THEN [ok |-> FALSE, err |-> [msg |-> "input is out of range", key |-> Date]]
    ELSE [ok |-> TRUE,
          val |-> [year |-> DecValue(y), month |-> DecValue(m), day |-> DecValue(d)]]

NaiveDate_split(t, dashes) ==
    IF Cardinality(dashes) # 2
    THEN [ok |-> FALSE, err |-> [msg |-> "input contains invalid characters", key |-> Date]]
    ELSE NaiveDate_from_ymd(t, Sub(t, 1, Min(dashes) - 1),
                            Sub(t, Min(dashes) + 1, Max(dashes) - 1),
                            Sub(t, Max(dashes) + 1, Len(t)))

\* chrono's NaiveDate::from_str, for dates of the form year-month-day
NaiveDate_from_str(t) == NaiveDate_split(t, {k \in 1..Len(t) : t[k] = "-"})

\* chrono's Display for NaiveDate
NaiveDate_fmt(date) ==
    DecText(date.year, 4) \o <<"-">> \o DecText(date.month, 2) \o <<"-">> \o DecText(date.day, 2)

\* a date read as a field
SomeDate(date) == IF date.ok THEN [ok |-> TRUE, val |-> Some(date.val)] ELSE date

OptionDateOf(text) ==
    IF ~text.ok \/ ~text.val.some THEN text ELSE SomeDate(NaiveDate_from_str(text.val.val))

\* a field of type Option<chrono::NaiveDate>: a string that is a date
OptionDate(entries, key) == OptionDateOf(OptionString(entries, key, <<>>))

\* a variant that keeps every key
Flatten_all(entries, named) == {entries[k] : k \in 1..Len(entries)}

\* #[serde(flatten)]: the table of the entries under the keys that the type
\* does not name
Flatten(entries, named) ==
    {entries[k] : k \in {n \in 1..Len(entries) : entries[n].key \notin named}}

\* the field of a FrontMatter that a key names
FieldOf(self, key) ==
    IF key = Title THEN self.title
    ELSE IF key = Description THEN self.description
    ELSE IF key = Date THEN self.date
    ELSE self.kind

\* the FrontMatter of the fields read: the first key of the document whose
\* field is an error gives the error
FrontMatter_of(entries, fields, rest) ==
    LET bad == {k \in 1..Len(entries) :
                   /\ entries[k].sub = <<>> /\ entries[k].key \in RecognisedKeys
                   /\ ~FieldOf(fields, entries[k].key).ok}
    IN  IF bad # {}
        THEN [tag |-> "err", chain |-> <<FieldOf(fields, entries[Min(bad)].key).err>>]
        ELSE [tag |-> "ok",
              val |-> [title |-> fields.title.val, description |-> fields.description.val,
                       date |-> fields.date.val, kind |-> fields.kind.val, rest |-> rest]]

\* serde's Deserialize for FrontMatter, given the entries of a document: the
\* keys it names go to their fields, a value of another type being an error,
\* and every other key is flattened into rest
FrontMatter_deserialize(entries) ==
    FrontMatter_of(entries,
                   [title |-> OptionString(entries, Title, <<>>),
                    description |-> OptionString(entries, Description, <<>>),
                    date |-> OptionDate(entries, Date),
                    kind |-> OptionString(entries, Kind, <<>>)],
                   Flatten(entries, RecognisedKeys))

FrontMatter_parsed(parsed) ==
    IF parsed.ok THEN FrontMatter_deserialize(parsed.table)
    ELSE [tag |-> "err", chain |-> <<parsed.err>>]

\* toml::from_str for a FrontMatter
FrontMatter_from_toml(t) == FrontMatter_parsed(toml_from_str(t))

Delim == <<"+", "+", "+">>

\* a variant that asks for no newline after the delimiter
ClosesAt_anywhere(t, p) == At(t, p, Delim)

\* is p the start of a `+++` that a `\r?\n` follows
ClosesAt(t, p) ==
    At(t, p, Delim) /\ (At(t, p + 3, <<"\n">>) \/ At(t, p + 3, <<"\r", "\n">>))

\* a variant that closes the block at the first delimiter a newline follows
RawPage_captures_first(t) ==
    LET open == SkipSpace(t, 1)
        closes == {p \in (open + 3)..Len(t) : ClosesAt(t, p)}
    IN  IF ~At(t, open, Delim) \/ closes = {} THEN [matched |-> FALSE]
        ELSE LET close == Min(closes)
                 rest == SkipNewlines(t, close + 3)
             IN [matched |-> TRUE,
                 g1 |-> Sub(t, open + 3, close - 1),
                 g3 |-> Sub(t, rest, Len(t))]

\* regex ^\s*\+\+\+((?s).*(?-s))\+\+\+(\r?\n)+((?s).*(?-s))$ : the first
\* group is greedy, so the closing delimiter is the last one a newline follows
RawPage_captures(t) ==
    LET open == SkipSpace(t, 1)
        closes == {p \in (open + 3)..Len(t) : ClosesAt(t, p)}
    IN  IF ~At(t, open, Delim) \/ closes = {} THEN [matched |-> FALSE]
        ELSE LET close == Max(closes)
                 rest == SkipNewlines(t, close + 3)
             IN [matched |-> TRUE,
                 g1 |-> Sub(t, open + 3, close - 1),
                 g3 |-> Sub(t, rest, Len(t))]

Ok(v) == [tag |-> "ok", val |-> v]
Err(chain) == [tag |-> "err", chain |-> chain]
Context(r, c) == IF r.tag = "err" THEN Err(<<c>> \o r.chain) ELSE r

\* the page of a front matter that was parsed
RawPage_of(parsed, text) ==
    IF parsed.tag = "ok" THEN Ok([front_matter |-> parsed.val, contents |-> text])
    ELSE parsed

RawPage_from_str(t) ==
    LET captures == RawPage_captures(t)
    IN  IF captures.matched
        THEN RawPage_of(Context(FrontMatter_from_toml(captures.g1),
                                [msg |-> "failed to parse front matter"]),
                        captures.g3)
        ELSE Ok([front_matter |-> FrontMatter_default, contents |-> t])

(***************************************************************************)
(* SpecRawPage: a document is parsed                                       *)
(***************************************************************************)
DocTokens == {Delim, <<"\n">>, <<"\r">>, <<" ">>, <<"1">>, <<"1", "=", "1">>}

Documents == {Concat(ts) : ts \in SeqsUpTo(DocTokens, MaxDocTokens)}

InitRawPage ==
    /\ pc = "start"
    /\ s \in Documents
    /\ raw_page = NoResult /\ front_matter = NoResult
    /\ IdleRange /\ IdlePre /\ IdleProj /\ IdleUrl /\ IdleRender

ParseRawPage ==
    /\ pc = "start"
    /\ raw_page' = RawPage_from_str(s)
    /\ pc' = "done"
    /\ UNCHANGED <<s, front_matter, rangeVars, preVars, projVars, urlVars, renderVars>>

NextRawPage == ParseRawPage

SpecRawPage == InitRawPage /\ [][NextRawPage]_vars

(***************************************************************************)
(* Claims about RawPage::from_str                                          *)
(***************************************************************************)
\* the characters before position o are all whitespace
LeadingSpace(t, o) == \A k \in 1..(o - 1) : IsSpace(t[k])

\* r is one or more `\n` or `\r\n`
IsNewlineRun(r) ==
    /\ r # <<>>
    /\ \A k \in 1..Len(r) : r[k] \in {"\r", "\n"}
    /\ \A k \in 1..Len(r) : r[k] = "\r" => (k < Len(r) /\ r[k + 1] = "\n")

\* t holds a block: whitespace, `+++`, a body, `+++` and a newline
HasBlock(t) ==
    \E o \in 1..Len(t) :
        /\ At(t, o, Delim) /\ LeadingSpace(t, o)
        /\ \E c \in (o + 3)..Len(t) :
              /\ At(t, c, Delim)
              /\ \E k \in (c + 3)..(c + 4) : IsNewlineRun(Sub(t, c + 3, k))

\* t is whitespace, `+++`, a body taken from Body, the last `+++` of t that a
\* newline follows, a run of newlines, and then rest, which starts with no newline
BlockWith(t, Body(_), rest) ==
    LET k == Len(t) - Len(rest) + 1
    IN  /\ rest = Sub(t, k, Len(t))
        /\ ~At(t, k, <<"\n">>) /\ ~At(t, k, <<"\r", "\n">>)
        /\ \E o \in 1..Len(t) :
              /\ At(t, o, Delim) /\ LeadingSpace(t, o)
              /\ \E c \in (o + 3)..Len(t) :
                    /\ At(t, c, Delim)
                    /\ IsNewlineRun(Sub(t, c + 3, k - 1))
                    /\ Body(Sub(t, o + 3, c - 1))
                    /\ \A c2 \in (c + 1)..Len(t) :
                          ~(At(t, c2, Delim)
                              /\ (At(t, c2 + 3, <<"\n">>) \/ At(t, c2 + 3, <<"\r", "\n">>)))

SpaceOnly(b) == \A k \in 1..Len(b) : IsSpace(b[k])

\* spaces and line endings only: every `\r` is the first half of a `\r\n`
BlankLinesOnly(b) ==
    /\ SpaceOnly(b)
    /\ \A k \in 1..Len(b) : b[k] = "\r" => (k < Len(b) /\ b[k + 1] = "\n")

\* C1: a document in which no `+++` block is found parses successfully to the
\* default front matter and to contents equal to the whole input.
C1_NoBlockIsContents ==
    (pc = "done" /\ ~HasBlock(s)) =>
        raw_page = Ok([front_matter |-> FrontMatter_default, contents |-> s])

\* C1: a parsed document that holds a `+++` and still has no block
C1_Witness ==
    /\ pc = "done" /\ ~HasBlock(s)
    /\ \E p \in 1..Len(s) : At(s, p, Delim)
    /\ raw_page.tag = "ok" /\ raw_page.val.contents = s

\* C2 as stated: whenever the body of the block is whitespace only, parsing
\* yields the default front matter and the text after the closing delimiter
\* and its newlines.
C2_Original ==
    pc = "done" =>
        \A rest \in {Sub(s, k, Len(s)) : k \in 1..(Len(s) + 1)} :
            BlockWith(s, SpaceOnly, rest) =>
                raw_page = Ok([front_matter |-> FrontMatter_default, contents |-> rest])

\* C2 amended: whenever the body of the block is made of spaces and line
\* endings (`\n` or `\r\n`) only, parsing yields the default front matter and
\* the text after the closing delimiter and all the newlines that follow it.
C2_BlankBlock ==
    pc = "done" =>
        \A rest \in {Sub(s, k, Len(s)) : k \in 1..(Len(s) + 1)} :
            BlockWith(s, BlankLinesOnly, rest) =>
                raw_page = Ok([front_matter |-> FrontMatter_default, contents |-> rest])

\* C2: a parsed document with a blank block, several newlines after it, and text
C2_Witness ==
    /\ pc = "done"
    /\ \E k \in 1..Len(s) :
          /\ BlockWith(s, BlankLinesOnly, Sub(s, k, Len(s)))
          /\ At(s, k - 2, <<"\n", "\n">>)
          /\ raw_page = Ok([front_matter |-> FrontMatter_default,
                            contents |-> Sub(s, k, Len(s))])

(***************************************************************************)
(* LineRange and Include                                                   *)
(***************************************************************************)
\* a variant that forgets the subtraction
saturating_sub_none(a, b) == a

\* usize::saturating_sub
saturating_sub(a, b) == IF a >= b THEN a - b ELSE 0

Digits == {"0", "1", "2", "3"}
DigitValue(c) == IF c = "0" THEN 0 ELSE IF c = "1" THEN 1 ELSE IF c = "2" THEN 2 ELSE 3

RECURSIVE DecimalValue(_)
DecimalValue(t) ==
    IF t = <<>> THEN 0 ELSE 10 * DecimalValue(Sub(t, 1, Len(t) - 1)) + DigitValue(t[Len(t)])

\* str::parse::<usize>: one or more digits; the numbers of the model are far
\* below usize::MAX, so the overflow error is out of reach
parse_usize(t) ==
    IF t = <<>> THEN Err(<<[msg |-> "cannot parse integer from empty string"]>>)
    ELSE IF \E k \in 1..Len(t) : t[k] \notin Digits
         THEN Err(<<[msg |-> "invalid digit found in string"]>>)
    ELSE Ok(DecimalValue(t))

\* str::splitn(2, sep): the text before the first sep, and the text after it if any
splitn2(t, sep) ==
    LET hits == {k \in 1..Len(t) : t[k] = sep}
    IN  IF hits = {} THEN <<t>>
        ELSE <<Sub(t, 1, Min(hits) - 1), Sub(t, Min(hits) + 1, Len(t))>>

Range(a, b) == [kind |-> "Range", start |-> a, end |-> b]
RangeFrom(a) == [kind |-> "RangeFrom", start |-> a]
RangeTo(b) == [kind |-> "RangeTo", end |-> b]
RangeFull == [kind |-> "RangeFull"]

LineRange_from_str(p) ==
    LET pieces == splitn2(IF p.some THEN p.val ELSE <<>>, ":")
        first == parse_usize(pieces[1])
        msg == [msg |-> "failed to parse end line number"]
    IN  IF pieces[1] # <<>> /\ first.tag = "err"
        THEN Context(first, [msg |-> "failed to parse start line number"])
        ELSE
          LET start == IF pieces[1] = <<>> THEN None
                       ELSE Some(saturating_sub(first.val, 1))
              end == IF Len(pieces) = 2 THEN parse_usize(pieces[2]) ELSE NoResult
          IN  IF ~start.some /\ Len(pieces) = 1 THEN Ok(RangeFull)
              ELSE IF start.some /\ Len(pieces) = 1
                   THEN Ok(Range(start.val, start.val + 1))
              ELSE IF start.some /\ pieces[2] = <<>> THEN Ok(RangeFrom(start.val))
              ELSE IF end.tag = "err" THEN Context(end, msg)
              ELSE IF ~start.some THEN Ok(RangeTo(end.val))
              ELSE Ok(Range(start.val, end.val))

LineRange_start(r) == IF r.kind \in {"Range", "RangeFrom"} THEN r.start ELSE 0

LineRange_end(r) == IF r.kind \in {"Range", "RangeTo"} THEN Some(r.end) ELSE None

\* str::lines on a text without carriage returns: the pieces that end at each
\* `\n`, and the rest if it is not empty
RECURSIVE Lines(_)
Lines(t) ==
    LET hits == {k \in 1..Len(t) : t[k] = "\n"}
    IN  IF t = <<>> THEN <<>>
        ELSE IF hits = {} THEN <<t>>
        ELSE <<Sub(t, 1, Min(hits) - 1)>> \o Lines(Sub(t, Min(hits) + 1, Len(t)))

\* Iterator::skip and Iterator::take
Skip(q, n) == Sub(q, n + 1, Len(q))
Take(q, n) == Sub(q, 1, n)

\* [&str]::join
RECURSIVE Join(_, _)
Join(q, sep) ==
    IF q = <<>> THEN <<>>
    ELSE IF Len(q) = 1 THEN q[1]
    ELSE q[1] \o sep \o Join(Tail(q), sep)

Include_extract(c, r) ==
    LET start == LineRange_start(r)
        end == LineRange_end(r)
        lines == Skip(Lines(c), start)
    IN  Join(IF end.some THEN Take(lines, saturating_sub(end.val, start)) ELSE lines,
             <<"\n">>)

(***************************************************************************)
(* SpecLineRange: the range text of a directive is parsed                  *)
(***************************************************************************)
RangeTexts == SeqsUpTo(Digits \cup {":", " "}, MaxRangeLen)

InitLineRange ==
    /\ pc = "start"
    /\ parts \in {None} \cup {Some(t) : t \in RangeTexts}
    /\ line_range = NoResult
    /\ contents = NoResult /\ extracted = NoResult
    /\ IdleRaw /\ IdlePre /\ IdleProj /\ IdleUrl /\ IdleRender

ParseLineRange ==
    /\ pc = "start"
    /\ line_range' = LineRange_from_str(parts)
    /\ pc' = "done"
    /\ UNCHANGED <<parts, contents, extracted, rawVars, preVars, projVars, urlVars, renderVars>>

NextLineRange == ParseLineRange

SpecLineRange == InitLineRange /\ [][NextLineRange]_vars

(***************************************************************************)
(* SpecExtract: the lines of a range are taken from a target file          *)
(***************************************************************************)
FileTexts == SeqsUpTo({"a", "b", "\n"}, MaxFileLen)

LineRanges ==
    {Range(a, b) : a \in 0..MaxLine, b \in 0..MaxLine}
        \cup {RangeFrom(a) : a \in 0..MaxLine}
        \cup {RangeTo(b) : b \in 0..MaxLine}
        \cup {RangeFull}

InitExtract ==
    /\ pc = "start"
    /\ contents \in FileTexts
    /\ line_range \in LineRanges
    /\ extracted = NoResult
    /\ parts = NoResult
    /\ IdleRaw /\ IdlePre /\ IdleProj /\ IdleUrl /\ IdleRender

Extract ==
    /\ pc = "start"
    /\ extracted' = Include_extract(contents, line_range)
    /\ pc' = "done"
    /\ UNCHANGED <<parts, line_range, contents, rawVars, preVars, projVars, urlVars, renderVars>>

NextExtract == Extract

SpecExtract == InitExtract /\ [][NextExtract]_vars

(***************************************************************************)
(* Claims about LineRange::from_str and Include::extract                   *)
(***************************************************************************)
\* the decimal numeral of n
RECURSIVE Decimal(_)
Decimal(n) ==
    LET d == <<(<<"0", "1", "2", "3", "4", "5", "6", "7", "8", "9">>)[(n % 10) + 1]>>
    IN IF n < 10 THEN d ELSE Decimal(n \div 10) \o d

Numbers == 0..MaxNumber

\* one less, and zero for zero
StartOf(n) == IF n = 0 THEN 0 ELSE n - 1

\* C6: an absent or empty range text is the full range; "s" is the one line
\* [s-1, s), "s:" the lines from s-1 on, ":e" the lines [0, e), "s:e" the lines
\* [s-1, e); the start, and only the start, is lowered by one, and a start of
\* zero stays zero, so "0" gives the range of "1".
C6_LineRangeFromStr ==
    pc = "done" =>
        /\ (~parts.some \/ parts = Some(<<>>)) => line_range = Ok(RangeFull)
        /\ \A n \in Numbers :
              /\ parts = Some(Decimal(n)) =>
                    line_range = Ok(Range(StartOf(n), StartOf(n) + 1))
              /\ parts = Some(Decimal(n) \o <<":">>) =>
                    line_range = Ok(RangeFrom(StartOf(n)))
              /\ parts = Some(<<":">> \o Decimal(n)) => line_range = Ok(RangeTo(n))
              /\ \A e \in Numbers :
                    parts = Some(Decimal(n) \o <<":">> \o Decimal(e)) =>
                        line_range = Ok(Range(StartOf(n), e))

\* C6: the range text "0:2" has been parsed, to the range of "1:2"
C6_Witness ==
    /\ pc = "done"
    /\ parts = Some(<<"0", ":", "2">>)
    /\ line_range = Ok(Range(0, 2))

\* C7: the text extracted for the range with start a and end b is the lines
\* L[a .. min(b, n)) of the n lines of the contents (L[a .. n) when there is
\* no end) joined by newlines with none at the end, and is empty when a >= n
\* or b <= a.
C7_ExtractIsSlice ==
    pc = "done" =>
        LET L == Lines(contents)
            n == Len(L)
            a == LineRange_start(line_range)
            hasEnd == line_range.kind \in {"Range", "RangeTo"}
            hi == IF hasEnd /\ line_range.end < n THEN line_range.end ELSE n
            slice == [i \in 1..(IF hi > a THEN hi - a ELSE 0) |-> L[a + i]]
        IN  /\ extracted = Join(slice, <<"\n">>)
            /\ (a >= n \/ (hasEnd /\ line_range.end <= a)) => extracted = <<>>
            /\ (extracted # <<>> /\ slice[Len(slice)] # <<>>) =>
                    extracted[Len(extracted)] # "\n"

\* C7: lines from the middle of a longer file have been extracted
C7_Witness ==
    /\ pc = "done"
    /\ line_range = Range(1, 2)
    /\ Len(Lines(contents)) = 3
    /\ extracted = Lines(contents)[2] /\ extracted # <<>>

(***************************************************************************)
(* Directives: find_directives, Include::read, preprocess                  *)
(***************************************************************************)
Open == <<"{", "{">>
Close == <<"}", "}">>
IncludeName == <<"i", "n", "c", "l", "u", "d", "e">>

\* the regex class [a-zA-Z0-9_], on the characters of the model
IsNameChar(c) ==
    c \in {"i", "n", "c", "l", "u", "d", "e", "x", "f", "g", "a", "b", "0", "1", "2", "3"}

RECURSIVE NameEnd(_, _)
NameEnd(t, i) == IF i <= Len(t) /\ IsNameChar(t[i]) THEN NameEnd(t, i + 1) ELSE i

\* a variant in which the arguments stop at the first `}}`
ArgsEnd_first(t, a) ==
    LET closes == {c \in a..Len(t) : At(t, c, Close)}
        nls == {k \in a..Len(t) : t[k] = "\n"}
    IN  IF closes = {} THEN 0
        ELSE IF nls # {} /\ Min(nls) < Min(closes)
             THEN (IF SkipSpace(t, Min(nls)) = Min(closes) THEN Min(nls) ELSE 0)
        ELSE Min(closes)

\* `(?P<args>.*)\s*\}\}` from position a: the position after the arguments,
\* or 0 when nothing matches.  `.` takes no `\n` and `.*` is greedy: the
\* arguments run to the end of the line when whitespace and `}}` follow it
\* there, and otherwise to the last `}}` of the line
ArgsEnd(t, a) ==
    LET nls == {k \in a..Len(t) : t[k] = "\n"}
        eol == IF nls = {} THEN Len(t) + 1 ELSE Min(nls)
        closes == {c \in a..(eol - 2) : At(t, c, Close)}
    IN  IF eol <= Len(t) /\ At(t, SkipSpace(t, eol), Close) THEN eol
        ELSE IF closes # {} THEN Max(closes)
        ELSE 0

\* regex \{\{\s*#(?P<name>[a-zA-Z0-9_]+)\s+((?P<args>.*)\s*)\}\} tried at
\* position i: the match t[start .. stop-1] and its two named groups
MatchAt(t, i) ==
    LET hash == SkipSpace(t, i + 2)
        ne == NameEnd(t, hash + 1)
        a == SkipSpace(t, ne)
        ae == ArgsEnd(t, a)
    IN  IF At(t, i, Open) /\ At(t, hash, <<"#">>) /\ ne > hash + 1 /\ a > ne /\ ae > 0
        THEN [matched |-> TRUE, start |-> i, stop |-> SkipSpace(t, ae) + 2,
              name |-> Sub(t, hash + 1, ne - 1), args |-> Sub(t, a, ae - 1)]
        ELSE [matched |-> FALSE]

\* Regex::captures_iter: the leftmost match at or after each position, the
\* next search starting where the match before it stops
RECURSIVE captures_iter(_, _)
captures_iter(t, from) ==
    LET hits == {i \in from..Len(t) : MatchAt(t, i).matched}
    IN  IF hits = {} THEN <<>>
        ELSE LET m == MatchAt(t, Min(hits)) IN <<m>> \o captures_iter(t, m.stop)

Include_from_str(args) ==
    LET pieces == splitn2(args, ":")
        line_range_ == LineRange_from_str(IF Len(pieces) = 2 THEN Some(pieces[2]) ELSE None)
    IN  IF line_range_.tag = "err" THEN line_range_
        ELSE Ok([path |-> pieces[1], line_range |-> line_range_.val])

\* a variant that stops at the first include directive that fails to parse
RECURSIVE find_directives_loop_abort(_, _, _)
find_directives_loop_abort(ms, ds, warnings) ==
    IF ms = <<>> THEN [directives |-> ds, log |-> warnings]
    ELSE
      LET m == Head(ms)
          include == Include_from_str(m.args)
      IN  IF m.name = IncludeName
          THEN IF include.tag = "ok"
               THEN find_directives_loop_abort(Tail(ms),
                        Append(ds, [kind |-> "Include", include |-> include.val,
                                    start |-> m.start, stop |-> m.stop]),
                        warnings)
               ELSE [directives |-> ds,
                     log |-> Append(warnings,
                               Context(include, [msg |-> "failed to parse include directive",
                                                 start |-> m.start, stop |-> m.stop]))]
          ELSE find_directives_loop_abort(Tail(ms), ds,
                        Append(warnings, [tag |-> "warn", msg |-> "unrecognized directive", name |-> m.name]))

\* the loop of find_directives over the matches ms: the directives pushed and
\* the warnings logged
RECURSIVE find_directives_loop(_, _, _)
find_directives_loop(ms, ds, warnings) ==
    IF ms = <<>> THEN [directives |-> ds, log |-> warnings]
    ELSE
      LET m == Head(ms)
          include == Include_from_str(m.args)
      IN  IF m.name = IncludeName
          THEN IF include.tag = "ok"
               THEN find_directives_loop(Tail(ms),
                        Append(ds, [kind |-> "Include", include |-> include.val,
                                    start |-> m.start, stop |-> m.stop]),
                        warnings)
               ELSE find_directives_loop(Tail(ms), ds,
                        Append(warnings,
                               Context(include, [msg |-> "failed to parse include directive",
                                                 start |-> m.start, stop |-> m.stop])))
          ELSE find_directives_loop(Tail(ms), ds,
                        Append(warnings, [tag |-> "warn", msg |-> "unrecognized directive", name |-> m.name]))

find_directives(t) == find_directives_loop(captures_iter(t, 1), <<>>, <<>>)

\* a path is a sequence of components
RECURSIVE PathText(_)
PathText(q) == IF q = <<>> THEN "" ELSE q[1] \o PathText(Tail(q))

\* PathBuf::from on the text of a relative path: its components
RECURSIVE PathBuf_from(_)
PathBuf_from(q) ==
    LET piece == splitn2(q, "/")
        first == IF piece[1] \in {<<>>, <<".">>} THEN <<>> ELSE <<PathText(piece[1])>>
    IN  IF Len(piece) = 1 THEN first ELSE first \o PathBuf_from(piece[2])

\* Path::parent and Path::join, on relative arguments
Path_parent(path) == Sub(path, 1, Len(path) - 1)
Path_join(base, path) == base \o path

\* the file the system opens for a path: `..` leaves the directory before it
RECURSIVE Resolve(_, _)
Resolve(path, seen) ==
    IF path = <<>> THEN seen
    ELSE IF Head(path) = ".." THEN Resolve(Tail(path), Sub(seen, 1, Len(seen) - 1))
    ELSE Resolve(Tail(path), Append(seen, Head(path)))

root_dir == <<"root">>

\* a variant that takes the root directory for the source directory
Config_src_dir_root == root_dir

Config_src_dir == Path_join(root_dir, <<"src">>)

\* the files on disk that an include can name
Disk ==
    (<<"root", "src", "f">> :> <<"a", "\n", "b", "\n", "c">>)
        @@ (<<"root", "src", "d", "f">> :> <<"c", "\n", "b", "\n", "a", "\n">>)
        @@ (<<"root", "f">> :> <<"b", "b">>)

fs_read_to_string(path) ==
    IF Resolve(path, <<>>) \in DOMAIN Disk THEN Ok(Disk[Resolve(path, <<>>)])
    ELSE Err(<<[msg |-> "No such file or directory (os error 2)"]>>)

Include_read(include, page_path) ==
    LET path == Path_join(Path_parent(page_path), PathBuf_from(include.path))
        read == fs_read_to_string(path)
    IN  IF read.tag = "err"
        THEN Context(read, [msg |-> "failed to read from", path |-> path])
        ELSE Ok(Include_extract(read.val, include.line_range))

(***************************************************************************)
(* SpecPreprocess: Page::preprocess, one step of its loop at a time        *)
(***************************************************************************)
Marker(lead, name, args, trail) ==
    Open \o lead \o <<"#">> \o name \o <<" ">> \o args \o trail \o Close

Pieces ==
    { <<"a">>, <<"\n">>,
      Marker(<<>>, IncludeName, <<"f">>, <<>>),
      Marker(<<>>, IncludeName, <<"f", ":", "2", ":", "3">>, <<>>),
      Marker(<<>>, IncludeName, <<"f", ":", "1", ":", "2">>, <<" ">>),
      Marker(<<" ">>, IncludeName, <<"f">>, <<"\n">>),
      Marker(<<>>, IncludeName, <<"f", ":", "x">>, <<>>),
      Marker(<<>>, IncludeName, <<"f", ":", "1", ":", "x">>, <<>>),
      Marker(<<>>, IncludeName, <<"f", ":", "2", ":">>, <<>>),
      Marker(<<>>, IncludeName, <<".", ".", "/", "f", ":", "1", ":", "2">>, <<>>),
      Marker(<<>>, IncludeName, <<"g">>, <<>>),
      Marker(<<>>, <<"x">>, <<"f">>, <<>>) }

PagePaths == {<<"p.md">>, <<"d", "p.md">>}

\* the front matter of the page at a path: none for the page of the source
\* directory, a title and a key of its own for the page below it
PageFrontMatter(p) ==
    IF Len(p) = 1 THEN FrontMatter_default
    ELSE [title |-> Some(<<"1">>), description |-> None, date |-> None, kind |-> None,
          rest |-> {Entry(<<"1">>, <<>>, "integer", <<"1">>)}]

InitPreprocess ==
    /\ pc = "start"
    /\ page \in {[path |-> p, front_matter |-> PageFrontMatter(p), contents |-> Concat(ps)] :
                    p \in PagePaths, ps \in SeqsUpTo(Pieces, MaxPieces)}
    /\ directives = <<>> /\ new_contents = <<>> /\ previous_end = 1
    /\ substituted = <<>> /\ log = <<>> /\ new_page = NoResult
    /\ IdleRaw /\ IdleRange /\ IdleProj /\ IdleUrl /\ IdleRender

\* a variant that takes the span of a directive to end where it starts
Directive_range_empty(directive) == [start |-> directive.start, end |-> directive.start]

\* Directive::range: the span of the match, from its first character to the
\* position after its last
Directive_range(directive) == [start |-> directive.start, end |-> directive.stop]

\* preprocess, up to its loop: the directives are found, the warnings logged
FindDirectives ==
    /\ pc = "start"
    /\ directives' = find_directives(page.contents).directives
    /\ log' = find_directives(page.contents).log
    /\ pc' = "loop"
    /\ UNCHANGED <<page, new_contents, previous_end, substituted, new_page, rawVars, rangeVars, projVars, urlVars, renderVars>>

\* one turn of the loop of preprocess: the text before the directive is
\* copied and the directive is read; a read that fails ends Page::preprocess
ResolveDirective ==
    /\ pc = "loop" /\ directives # <<>>
    /\ LET directive == Head(directives)
           page_path == Path_join(Config_src_dir, page.path)
           read == Include_read(directive.include, page_path)
           range == Directive_range(directive)
           gap == Sub(page.contents, previous_end, range.start - 1)
       IN  IF read.tag = "ok"
           THEN /\ new_contents' = new_contents \o gap \o read.val
                /\ previous_end' = range.end
                /\ substituted' = Append(substituted, [directive |-> directive, text |-> read.val])
                /\ directives' = Tail(directives)
                /\ UNCHANGED <<pc, new_page>>
           ELSE /\ new_page' = Context(read, [msg |-> "failed to preprocess page",
                                              path |-> page.path])
                /\ new_contents' = new_contents \o gap
                /\ pc' = "done"
                /\ UNCHANGED <<previous_end, substituted, directives>>
    /\ UNCHANGED <<page, log, rawVars, rangeVars, projVars, urlVars, renderVars>>

\* a variant that gives the page a front matter of its own
Page_preprocess_default(self, preprocessed) ==
    Ok([path |-> self.path, front_matter |-> FrontMatter_default, contents |-> preprocessed])

\* Page::preprocess on success: the page with the preprocessed contents
Page_preprocess_ok(self, preprocessed) ==
    Ok([path |-> self.path, front_matter |-> self.front_matter, contents |-> preprocessed])

\* the end of preprocess and of Page::preprocess: the rest of the text is copied
FinishPreprocess ==
    /\ pc = "loop" /\ directives = <<>>
    /\ new_contents' = new_contents \o Sub(page.contents, previous_end, Len(page.contents))
    /\ new_page' = Page_preprocess_ok(page, new_contents')
    /\ pc' = "done"
    /\ UNCHANGED <<page, directives, previous_end, substituted, log, rawVars, rangeVars, projVars, urlVars, renderVars>>

NextPreprocess == FindDirectives \/ ResolveDirective \/ FinishPreprocess

SpecPreprocess == InitPreprocess /\ [][NextPreprocess]_vars

(***************************************************************************)
(* Claims about include directives                                         *)
(***************************************************************************)
\* the matches of the directive regex in the page
Matches == captures_iter(page.contents, 1)

\* the directory of the page's source file
PageDir == <<"root", "src">> \o Sub(page.path, 1, Len(page.path) - 1)

\* the file that the path text names from the directory of the page
TargetFrom(dir, pathText) ==
    IF pathText = <<"f">> THEN dir \o <<"f">>
    ELSE IF pathText = <<"g">> THEN dir \o <<"g">>
    ELSE IF pathText = <<".", ".", "/", "f">> THEN Sub(dir, 1, Len(dir) - 1) \o <<"f">>
    ELSE <<>>

\* the lines first..last of the text, counted from one, clipped at its end
LinesOf(text, first, last) ==
    LET L == Lines(text)
        hi == IF last < Len(L) THEN last ELSE Len(L)
    IN Join([i \in 1..(IF hi >= first THEN hi - first + 1 ELSE 0) |-> L[first - 1 + i]], <<"\n">>)

\* C8: the text put in place of a directive `path:s:e` with 1 <= s <= e whose
\* target can be read is the lines s to e (both included, clipped at the end
\* of the file) of the file that path names from the directory of the page's
\* source file, joined by newlines.
C8_IncludeLines ==
    \A k \in 1..Len(substituted) :
        LET d == substituted[k].directive
            args == MatchAt(page.contents, d.start).args
        IN  /\ \A path \in {<<"f">>, <<".", ".", "/", "f">>}, first \in 1..MaxLine, last \in 1..MaxLine :
                  (first <= last /\ args = path \o <<":">> \o Decimal(first) \o <<":">> \o Decimal(last)) =>
                      /\ TargetFrom(PageDir, path) \in DOMAIN Disk
                      /\ substituted[k].text = LinesOf(Disk[TargetFrom(PageDir, path)], first, last)
            /\ (k = Len(substituted) /\ previous_end = d.stop /\ pc = "loop") =>
                  Sub(new_contents, Len(new_contents) - Len(substituted[k].text) + 1,
                      Len(new_contents)) = substituted[k].text

\* C8: a page in a subdirectory has had `f:2:3` replaced by two lines of the
\* file next to it
C8_Witness ==
    /\ pc = "done" /\ page.path = <<"d", "p.md">>
    /\ page.contents = Marker(<<>>, IncludeName, <<"f", ":", "2", ":", "3">>, <<>>)
    /\ new_page.tag = "ok" /\ new_page.val.contents = <<"b", "\n", "a">>

\* the argument texts of the markers of the model
MarkerArgs ==
    {<<"f">>, <<"f", ":", "2", ":", "3">>, <<"f", ":", "1", ":", "2">>, <<"f", ":", "2", ":">>,
     <<".", ".", "/", "f", ":", "1", ":", "2">>}

Includes(ds) == [k \in 1..Len(ds) |-> ds[k].include]

\* C9: a marker written with whitespace before `}}` is parsed to the path and
\* the line range of the marker written without it.
C9_SpaceBeforeClose ==
    (pc = "loop" /\ substituted = <<>>) =>
        \A A \in MarkerArgs, lead \in {<<>>, <<" ">>}, trail \in {<<" ">>, <<"\n">>} :
            page.contents = Marker(lead, IncludeName, A, trail) =>
                Includes(directives) =
                    Includes(find_directives(Marker(<<>>, IncludeName, A, <<>>)).directives)

\* the text of a line range: nothing, `s`, `s:`, `:e` or `s:e`
GoodRangeText(r) ==
    \/ r = <<>>
    \/ \E n \in Numbers :
          \/ r = Decimal(n) \/ r = Decimal(n) \o <<":">> \/ r = <<":">> \o Decimal(n)
          \/ \E e \in Numbers : r = Decimal(n) \o <<":">> \o Decimal(e)

WellFormed(m) ==
    /\ m.name = IncludeName
    /\ Len(splitn2(m.args, ":")) = 2 => GoodRangeText(splitn2(m.args, ":")[2])

Malformed(m) == m.name = IncludeName /\ ~WellFormed(m)

\* how far the text at position pos of the page has moved in the output
RECURSIVE Shift(_, _)
Shift(subs, pos) ==
    IF subs = <<>> THEN 0
    ELSE LET d == Head(subs).directive
         IN (IF d.stop <= pos THEN Len(Head(subs).text) - (d.stop - d.start) ELSE 0)
                + Shift(Tail(subs), pos)

\* C10: an include directive whose start or end is no number is logged as a
\* warning and never fails the page (only a read fails it); in the output its
\* text stands unchanged where it stood, and every other directive that
\* parses is resolved.
C10_MalformedIsSkipped ==
    pc # "start" =>
        \A i \in 1..Len(Matches) :
            LET m == Matches[i] IN
            Malformed(m) =>
                /\ \E w \in 1..Len(log) :
                      /\ log[w].tag = "err"
                      /\ log[w].chain[1] = [msg |-> "failed to parse include directive",
                                            start |-> m.start, stop |-> m.stop]
                /\ (pc = "done" /\ new_page.tag = "err") =>
                      /\ new_page.chain[2].msg = "failed to read from"
                      /\ WellFormed(MatchAt(page.contents, Head(directives).start))
                /\ (pc = "done" /\ new_page.tag = "ok") =>
                      /\ Sub(new_page.val.contents, m.start + Shift(substituted, m.start),
                             m.stop - 1 + Shift(substituted, m.start))
                            = Sub(page.contents, m.start, m.stop - 1)
                      /\ {Matches[j].start : j \in {j \in 1..Len(Matches) : WellFormed(Matches[j])}}
                            = {substituted[k].directive.start : k \in 1..Len(substituted)}

\* C10: a page with a malformed directive and, after it, one that was resolved
C10_Witness ==
    /\ pc = "done" /\ new_page.tag = "ok" /\ log # <<>>
    /\ \E i \in 1..Len(Matches), k \in 1..Len(substituted) :
          /\ Malformed(Matches[i])
          /\ substituted[k].directive.start > Matches[i].stop
          /\ substituted[k].text # <<>>

\* the places of the page where the marker `{{#include A}}` stands, for the
\* argument texts A of the set
MarkersOf(argSet) ==
    UNION {{[start |-> i, stop |-> i + Len(Marker(<<>>, IncludeName, A, <<>>))] :
                i \in {j \in 1..Len(page.contents) :
                          At(page.contents, j, Marker(<<>>, IncludeName, A, <<>>))}} :
           A \in argSet}

\* C10, read on the markers of the page: when a marker whose start or end is
\* no number stands on the page, the page fails only on a read, a warning is
\* logged, and every marker with a readable target and a good range has been
\* resolved over its own span.
C10_EveryOtherMarkerResolved ==
    (pc = "done" /\ MarkersOf({<<"f", ":", "x">>, <<"f", ":", "1", ":", "x">>}) # {}) =>
        /\ log # <<>>
        /\ new_page.tag = "err" => new_page.chain[2].msg = "failed to read from"
        /\ new_page.tag = "ok" =>
              \A mk \in MarkersOf({<<"f">>, <<"f", ":", "2", ":", "3">>, <<"f", ":", "2", ":">>,
                                   <<".", ".", "/", "f", ":", "1", ":", "2">>}) :
                  \E k \in 1..Len(substituted) :
                      /\ substituted[k].directive.start = mk.start
                      /\ substituted[k].directive.stop = mk.stop

(***************************************************************************)
(* Config::from_path, Theme::from_path, Page::from_path                    *)
(***************************************************************************)
\* a file on disk: none, a text, or bytes that are no UTF-8
Missing == [kind |-> "missing"]
Text(t) == [kind |-> "text", text |-> t]
Binary == [kind |-> "binary"]

read_to_string(file) ==
    IF file.kind = "text" THEN Ok(file.text)
    ELSE IF file.kind = "missing"
         THEN Err(<<[msg |-> "No such file or directory (os error 2)"]>>)
    ELSE Err(<<[msg |-> "stream did not contain valid UTF-8"]>>)

ProjectConfig_default == [title |-> None, authors |-> None]

RawConfig_default == [project |-> ProjectConfig_default, rest |-> {}]

ProjectKey == <<"p", "r", "o", "j", "e", "c", "t">>
\* serde's Deserialize for ProjectConfig, given the entries of a document
\* with a table `project`: the title is a string; the key `authors` is not
\* of the alphabet of the model; every other key of the table is ignored
ProjectConfig_deserialize(entries) ==
    LET title == OptionString(entries, ProjectKey, <<Title>>)
    IN  IF ~title.ok THEN Err(<<title.err>>)
        ELSE Ok([title |-> title.val, authors |-> None])

\* serde's Deserialize for RawConfig: the table `project`, the default when
\* there is none, and every other key flattened into rest
RawConfig_of(project_table, rest) ==
    IF project_table.tag = "err" THEN project_table
    ELSE Ok([project |-> project_table.val, rest |-> rest])

RawConfig_deserialize(entries) ==
    RawConfig_of(IF ~Defined(entries, ProjectKey, <<>>) THEN Ok(ProjectConfig_default)
                 ELSE IF EntryOf(entries, ProjectKey, <<>>).type # "table"
                 THEN Err(<<[msg |-> "invalid type: "
                                       \o TypeName(EntryOf(entries, ProjectKey, <<>>).type)
                                       \o ", expected struct ProjectConfig",
                             key |-> ProjectKey]>>)
                 ELSE ProjectConfig_deserialize(entries),
                 Flatten(entries, {ProjectKey}))

RawConfig_parsed(parsed) ==
    IF parsed.ok THEN RawConfig_deserialize(parsed.table) ELSE Err(<<parsed.err>>)

RawConfig_from_str(t) == RawConfig_parsed(toml_from_str(t))

\* T::from_str for the two types that are read from a path
FromStr(T, t) == IF T = "RawConfig" THEN RawConfig_from_str(t) ELSE RawPage_from_str(t)

\* FromPath::from_path for the type T
FromPath_from_path(file, T) ==
    LET read == read_to_string(file)
    IN  IF read.tag = "err" THEN Context(read, [msg |-> "failed to read file"])
        ELSE Context(FromStr(T, read.val), [msg |-> "failed to parse file contents"])

Config_new(root) == [root_dir |-> root, inner |-> RawConfig_default]

Config_path(root) == Path_join(root, <<"belong.toml">>)

\* a variant that takes the default configuration when the file is missing
Config_from_path_or_default(root, file) ==
    LET inner == Context(FromPath_from_path(file, "RawConfig"),
                         [msg |-> "failed to load config file", path |-> Config_path(root)])
    IN  IF file.kind = "missing" THEN Ok(Config_new(root))
        ELSE IF inner.tag = "err" THEN inner
        ELSE Ok([root_dir |-> root, inner |-> inner.val])

Config_from_path(root, file) ==
    LET inner == Context(FromPath_from_path(file, "RawConfig"),
                         [msg |-> "failed to load config file", path |-> Config_path(root)])
    IN  IF inner.tag = "err" THEN inner
        ELSE Ok([root_dir |-> root, inner |-> inner.val])

Config_theme_dir == Path_join(root_dir, <<"theme">>)

\* the files of a theme, in the order Theme::from_path takes them
ThemeFiles ==
    << <<"templates", "base.html">>, <<"templates", "index.html">>,
       <<"templates", "page.html">>, <<"css", "custom.css">> >>

\* the compiled-in text of the k-th file
Theme_default(k) == [kind |-> "default", of |-> ThemeFiles[k]]

\* a variant that looks for every file where the first one is
Theme_load_file_first(files, k) ==
    IF files[1].kind = "missing"
    THEN Ok([path |-> ThemeFiles[k], contents |-> Theme_default(k)])
    ELSE LET read == Context(read_to_string(files[1]), [msg |-> "failed to read file"])
         IN IF read.tag = "err" THEN read
            ELSE Ok([path |-> ThemeFiles[k], contents |-> Text(read.val)])

\* load_theme_files_from_path for the k-th file: the file on disk when there
\* is one, the compiled-in text otherwise
Theme_load_file(files, k) ==
    IF files[k].kind = "missing"
    THEN Ok([path |-> ThemeFiles[k], contents |-> Theme_default(k)])
    ELSE LET read == Context(read_to_string(files[k]), [msg |-> "failed to read file"])
         IN IF read.tag = "err" THEN read
            ELSE Ok([path |-> ThemeFiles[k], contents |-> Text(read.val)])

RECURSIVE Theme_load(_, _, _)
Theme_load(files, k, loaded) ==
    IF k > Len(ThemeFiles) THEN Ok(loaded)
    ELSE LET file == Theme_load_file(files, k)
         IN IF file.tag = "err" THEN file
            ELSE Theme_load(files, k + 1, Append(loaded, file.val))

\* From<File> for Template: the name is the file name of the path
Template_from(file) == [name |-> file.path[Len(file.path)], contents |-> file.contents]

\* From<File> for Stylesheet
Stylesheet_from(file) == [path |-> file.path, contents |-> file.contents]

Theme_from_path(files) ==
    LET loaded == Theme_load(files, 1, <<>>)
    IN  IF loaded.tag = "err" THEN loaded
        ELSE Ok([templates |-> [k \in 1..3 |-> Template_from(loaded.val[k])],
                 stylesheets |-> <<Stylesheet_from(loaded.val[4])>>])

\* the theme files that Theme::from_path reads from disk
RECURSIVE Theme_reads(_, _)
Theme_reads(files, k) ==
    IF k > Len(ThemeFiles) THEN <<>>
    ELSE IF files[k].kind = "missing" THEN Theme_reads(files, k + 1)
    ELSE <<Path_join(Config_theme_dir, ThemeFiles[k])>>
            \o (IF files[k].kind = "text" THEN Theme_reads(files, k + 1) ELSE <<>>)

\* Path::extension of a file name: what follows its last dot, when a dot
\* stands after the first character
Path_extension(name) ==
    LET dots == {k \in 2..Len(name) : name[k] = "."}
    IN IF dots = {} THEN None ELSE Some(Sub(name, Max(dots) + 1, Len(name)))

\* a variant that takes every file of the walk for a page
is_md_any(entry) == TRUE

\* the filter of the walk
is_md(entry) ==
    Path_extension(entry.name).some /\ Path_extension(entry.name).val = <<"m", "d">>

\* DirEntry::path of an entry of the walk
Entry_path(entry) == Path_join(Path_join(Config_src_dir, entry.dir), <<PathText(entry.name)>>)

\* a variant that leaves the path as it is
Path_strip_prefix_none(path, base) == path

Path_strip_prefix(path, base) == Sub(path, Len(base) + 1, Len(path))

Page_from_path(src_dir, full_path, file) ==
    LET raw == FromPath_from_path(file, "RawPage")
    IN  IF raw.tag = "err" THEN raw
        ELSE Ok([path |-> Path_strip_prefix(full_path, src_dir),
                 front_matter |-> raw.val.front_matter, contents |-> raw.val.contents])

(***************************************************************************)
(* SpecProject: Project::from_path, one load at a time                     *)
(***************************************************************************)
\* the number of files under the source directory
MaxFiles == 2

ConfigTexts == {<<>>, <<"1", "=", "1">>, <<"1", " ", "1">>, <<"1", "=">>}

PageDocs ==
    { <<"1">>,
      Delim \o <<"\n", "1", "=", "1", "\n">> \o Delim \o <<"\n", "1">>,
      <<"\n">> \o Delim \o <<"\n", "1", " ", "1", "\n">> \o Delim \o <<"\n", "1">> }

EntryNames ==
    { [dir |-> <<>>, name |-> <<"a", ".", "m", "d">>],
      [dir |-> <<"d">>, name |-> <<"b", ".", "m", "d">>],
      [dir |-> <<>>, name |-> <<"n", ".", "x">>] }

Entries ==
    {[dir |-> n.dir, name |-> n.name, file |-> f] :
        n \in EntryNames, f \in {Text(d) : d \in PageDocs} \cup {Binary}}

\* the walks of a source directory: no file stands in a walk twice
Walks ==
    {w \in SeqsUpTo(Entries, MaxFiles) :
        \A i, j \in 1..Len(w) : i # j => <<w[i].dir, w[i].name>> # <<w[j].dir, w[j].name>>}

InitProject ==
    /\ pc = "start"
    /\ tree \in {[config |-> c, theme |-> <<b, Missing, Missing, Missing>>, src |-> w] :
                    c \in {Text(x) : x \in ConfigTexts} \cup {Missing, Binary},
                    b \in {Missing, Text(<<"1">>), Binary},
                    w \in Walks}
    /\ visited = 0 /\ config = NoResult /\ theme = NoResult
    /\ pages = <<>> /\ reads = <<>> /\ project = NoResult
    /\ IdleRaw /\ IdleRange /\ IdlePre /\ IdleUrl /\ IdleRender

\* Config::from_path and its context; an error ends Project::from_path
LoadConfig ==
    /\ pc = "start"
    /\ config' = Context(Config_from_path(root_dir, tree.config), [msg |-> "failed to load config"])
    /\ reads' = Append(reads, Config_path(root_dir))
    /\ IF config'.tag = "err"
       THEN project' = config' /\ pc' = "done"
       ELSE project' = project /\ pc' = "theme"
    /\ UNCHANGED <<tree, visited, theme, pages, rawVars, rangeVars, preVars, urlVars, renderVars>>

\* Theme::from_path and its context; an error ends Project::from_path
LoadTheme ==
    /\ pc = "theme"
    /\ theme' = Context(Theme_from_path(tree.theme), [msg |-> "failed to load theme"])
    /\ reads' = reads \o Theme_reads(tree.theme, 1)
    /\ IF theme'.tag = "err"
       THEN project' = theme' /\ pc' = "done"
       ELSE project' = project /\ pc' = "pages"
    /\ UNCHANGED <<tree, visited, config, pages, rawVars, rangeVars, preVars, urlVars, renderVars>>

\* the next entry of the walk: filtered out, or loaded as a page; the first
\* page that fails to load ends the collection and Project::from_path
LoadPage ==
    /\ pc = "pages" /\ visited < Len(tree.src)
    /\ LET e == tree.src[visited + 1]
           loaded == Context(Page_from_path(Config_src_dir, Entry_path(e), e.file),
                             [msg |-> "failed to load page", path |-> Entry_path(e)])
       IN  /\ visited' = visited + 1
           /\ IF ~is_md(e) THEN UNCHANGED <<pc, pages, reads, project>>
              ELSE /\ reads' = Append(reads, Entry_path(e))
                   /\ IF loaded.tag = "err"
                      THEN project' = loaded /\ pc' = "done" /\ pages' = pages
                      ELSE pages' = Append(pages, loaded.val) /\ UNCHANGED <<pc, project>>
    /\ UNCHANGED <<tree, config, theme, rawVars, rangeVars, preVars, urlVars, renderVars>>

\* the walk is over: the Project is returned
FinishProject ==
    /\ pc = "pages" /\ visited = Len(tree.src)
    /\ project' = Ok([config |-> config.val, theme |-> theme.val, pages |-> pages])
    /\ pc' = "done"
    /\ UNCHANGED <<tree, visited, config, theme, pages, reads, rawVars, rangeVars, preVars, urlVars, renderVars>>

NextProject == LoadConfig \/ LoadTheme \/ LoadPage \/ FinishProject

SpecProject == InitProject /\ [][NextProject]_vars

(***************************************************************************)
(* Claims about Project::from_path                                         *)
(***************************************************************************)
\* the Markdown file names of the model
MarkdownNames == {<<"a", ".", "m", "d">>, <<"b", ".", "m", "d">>}

\* the page documents whose front matter parses
GoodDocs ==
    {<<"1">>, Delim \o <<"\n", "1", "=", "1", "\n">> \o Delim \o <<"\n", "1">>}

\* the page document whose front matter is `1 1`, and the parser's message
\* for it
BadDoc == <<"\n">> \o Delim \o <<"\n", "1", " ", "1", "\n">> \o Delim \o <<"\n", "1">>
BadDocMessage == [msg |-> "expected an equals, found an identifier", line |-> 2, col |-> 3]

\* the full path of the i-th file of the walk
FullPath(i) == <<"root", "src">> \o tree.src[i].dir \o <<PathText(tree.src[i].name)>>

ConfigFile == <<"root", "belong.toml">>

\* C3: when the config and the theme have loaded and one Markdown file of the
\* source directory has a front matter that fails to parse, the others being
\* valid, Project::from_path returns the error "failed to load page `<full
\* path of that file>`", "failed to parse file contents", "failed to parse
\* front matter", and the parser's message with its line and column.
C3_BadPageFailsProject ==
    (pc = "done" /\ config.tag = "ok" /\ theme.tag = "ok") =>
        \A i \in 1..Len(tree.src) :
            ( /\ tree.src[i].name \in MarkdownNames
              /\ tree.src[i].file = Text(BadDoc)
              /\ \A j \in (1..Len(tree.src)) \ {i} :
                    tree.src[j].name \in MarkdownNames =>
                        /\ tree.src[j].file.kind = "text"
                        /\ tree.src[j].file.text \in GoodDocs )
            => project = Err(<<[msg |-> "failed to load page", path |-> FullPath(i)],
                               [msg |-> "failed to parse file contents"],
                               [msg |-> "failed to parse front matter"],
                               BadDocMessage>>)

\* C3: a project whose second page, in a subdirectory, has the bad front
\* matter has failed after its first page was loaded
C3_Witness ==
    /\ pc = "done" /\ Len(tree.src) = 2 /\ Len(pages) = 1
    /\ tree.src[2].file = Text(BadDoc)
    /\ project.tag = "err"
    /\ project.chain[1] = [msg |-> "failed to load page", path |-> <<"root", "src", "d", "b.md">>]

BadConfigs ==
    { [text |-> <<"1", " ", "1">>,
       message |-> [msg |-> "expected an equals, found an identifier", line |-> 1, col |-> 3]],
      [text |-> <<"1", "=">>,
       message |-> [msg |-> "unexpected eof encountered", line |-> 1, col |-> 3]] }

\* C5: when `belong.toml` holds a text that is no valid TOML,
\* Project::from_path fails with "failed to load config", "failed to load
\* config file `<root>/belong.toml`", "failed to parse file contents" and the
\* parser's message with its line and column, before the theme or a page is
\* loaded: no file but the config file has been read.
C5_BadConfigFailsFirst ==
    pc # "start" =>
        \A bad \in BadConfigs :
            tree.config = Text(bad.text) =>
                /\ pc = "done"
                /\ project = Err(<<[msg |-> "failed to load config"],
                                   [msg |-> "failed to load config file", path |-> ConfigFile],
                                   [msg |-> "failed to parse file contents"],
                                   bad.message>>)
                /\ theme = NoResult /\ pages = <<>> /\ visited = 0
                /\ reads = <<ConfigFile>>

\* C5: a project with a theme file, a page and the config `1 1` has failed
C5_Witness ==
    /\ pc = "done" /\ tree.config = Text(<<"1", " ", "1">>)
    /\ tree.theme[1].kind = "text" /\ Len(tree.src) > 0
    /\ project.tag = "err" /\ project.chain[4].line = 1 /\ project.chain[4].col = 3

(***************************************************************************)
(* Claims about unrecognised directives, read failures and substitution    *)
(***************************************************************************)
\* the places of the page where the marker `{{#x f}}` stands
OtherMarkers ==
    {i \in 1..Len(page.contents) : At(page.contents, i, Marker(<<>>, <<"x">>, <<"f">>, <<>>))}

\* the include markers of the model whose target cannot be read
UnreadableMarkers == MarkersOf({<<"g">>})

\* C11, read on the markers of the page: where a marker `{{#x f}}` stands, a
\* warning naming `x` is logged, the page fails only when an include marker
\* names a file that cannot be read, and the marker's text stands unchanged
\* in the output.
C11_OtherMarkerIsSkipped ==
    (pc = "done" /\ OtherMarkers # {}) =>
        /\ \E w \in 1..Len(log) : log[w].tag = "warn" /\ log[w].name = <<"x">>
        /\ new_page.tag = "err" => UnreadableMarkers # {}
        /\ new_page.tag = "ok" =>
              \A i \in OtherMarkers :
                  At(new_page.val.contents, i + Shift(substituted, i),
                     Marker(<<>>, <<"x">>, <<"f">>, <<>>))

\* C11, on the matches of the scanner: a match whose name is not `include`
\* is logged as a warning with its name, gives no directive, and its text
\* stands unchanged in the output.
C11_OtherMatchIsSkipped ==
    pc # "start" =>
        \A i \in 1..Len(Matches) :
            LET m == Matches[i] IN
            m.name # IncludeName =>
                /\ \E w \in 1..Len(log) : log[w].tag = "warn" /\ log[w].name = m.name
                /\ \A k \in 1..Len(substituted) : substituted[k].directive.start # m.start
                /\ \A k \in 1..Len(directives) : directives[k].start # m.start
                /\ (pc = "done" /\ new_page.tag = "ok") =>
                      Sub(new_page.val.contents, m.start + Shift(substituted, m.start),
                          m.stop - 1 + Shift(substituted, m.start))
                            = Sub(page.contents, m.start, m.stop - 1)

\* the error of a page whose include of `g` cannot be read
UnreadableError ==
    Err(<<[msg |-> "failed to preprocess page", path |-> page.path],
          [msg |-> "failed to read from", path |-> PageDir \o <<"g">>],
          [msg |-> "No such file or directory (os error 2)"]>>)

\* C12, read on the markers of the page: when a marker `{{#include g}}`
\* stands on the page and `g` cannot be read, Page::preprocess fails with
\* "failed to preprocess page `<page path>`" wrapping "failed to read from
\* `<target path>`", and no page is returned.
C12_UnreadableMarkerFails ==
    (pc = "done" /\ UnreadableMarkers # {}) =>
        new_page.tag = "err" /\ new_page = UnreadableError

\* can the target of the directive not be read
Unreadable(d) == TargetFrom(PageDir, d.include.path) \notin DOMAIN Disk

\* C12, on the directives the scanner parsed: Page::preprocess fails exactly
\* when the target of one of them cannot be read, with the two messages and
\* the path of the page, after the directives before the first such one were
\* resolved.
C12_UnreadableDirectiveFails ==
    pc = "done" =>
        LET ds == find_directives(page.contents).directives
            bad == {k \in 1..Len(ds) : Unreadable(ds[k])}
        IN  /\ bad = {} => new_page.tag = "ok"
            /\ bad # {} =>
                  /\ new_page.tag = "err"
                  /\ new_page.chain[1] = [msg |-> "failed to preprocess page", path |-> page.path]
                  /\ new_page.chain[2].msg = "failed to read from"
                  /\ ds[Min(bad)].include.path = <<"g">> => new_page = UnreadableError
                  /\ Len(substituted) = Min(bad) - 1

\* the output of C13 for the spans and replacement texts subs, from position
\* pos of the text on
RECURSIVE Spliced(_, _, _)
Spliced(text, subs, pos) ==
    IF subs = <<>> THEN Sub(text, pos, Len(text))
    ELSE Sub(text, pos, Head(subs).directive.start - 1) \o Head(subs).text
            \o Spliced(text, Tail(subs), Head(subs).directive.stop)

\* C13: the spans of the recognised directives are disjoint and increasing,
\* and the preprocessed contents are the text before each span followed by
\* the replacement of its directive, then the text after the last span; a
\* page with no recognised directive is returned unchanged.
C13_OutputIsSplice ==
    (pc = "done" /\ new_page.tag = "ok") =>
        LET ds == find_directives(page.contents).directives
        IN  /\ Len(substituted) = Len(ds)
            /\ \A k \in 1..Len(ds) :
                  /\ substituted[k].directive = ds[k]
                  /\ 1 <= ds[k].start /\ ds[k].start < ds[k].stop
                  /\ ds[k].stop <= Len(page.contents) + 1
                  /\ k > 1 => ds[k - 1].stop <= ds[k].start
            /\ new_page.val.contents = Spliced(page.contents, substituted, 1)
            /\ ds = <<>> => new_page.val.contents = page.contents
            /\ new_page.val.path = page.path
            /\ new_page.val.front_matter = page.front_matter

\* C13: a page with text between two resolved directives
C13_Witness ==
    /\ pc = "done" /\ new_page.tag = "ok" /\ Len(substituted) = 2
    /\ substituted[1].directive.stop < substituted[2].directive.start
    /\ substituted[1].text # <<>> /\ substituted[2].text # <<>>
    /\ new_page.val.contents # page.contents

(***************************************************************************)
(* Page::url_path and Page::url_path_to_root.  A path is the sequence of   *)
(* its segments as written, each a text; the character `^` stands for a    *)
(* byte that is no UTF-8.                                                  *)
(***************************************************************************)
RootMarker == <<"/">>
CurDirText == <<".">>
ParentDirText == <<".", ".">>

Panic(msg) == [tag |-> "panic", msg |-> msg]

\* a variant that keeps no `.` at all
RECURSIVE Path_components_no_curdir(_, _)
Path_components_no_curdir(path, i) ==
    IF i > Len(path) THEN <<>>
    ELSE LET seg == path[i]
             comp == IF seg = RootMarker THEN <<[kind |-> "RootDir", text |-> seg]>>
                     ELSE IF seg = CurDirText THEN <<>>
                     ELSE IF seg = ParentDirText THEN <<[kind |-> "ParentDir", text |-> seg]>>
                     ELSE <<[kind |-> "Normal", text |-> seg]>>
         IN comp \o Path_components_no_curdir(path, i + 1)

\* Path::components: a `.` is kept at the start of the path only
RECURSIVE Path_components(_, _)
Path_components(path, i) ==
    IF i > Len(path) THEN <<>>
    ELSE LET seg == path[i]
             comp == IF seg = RootMarker THEN <<[kind |-> "RootDir", text |-> seg]>>
                     ELSE IF seg = CurDirText
                          THEN (IF i = 1 THEN <<[kind |-> "CurDir", text |-> seg]>> ELSE <<>>)
                     ELSE IF seg = ParentDirText THEN <<[kind |-> "ParentDir", text |-> seg]>>
                     ELSE <<[kind |-> "Normal", text |-> seg]>>
         IN comp \o Path_components(path, i + 1)

\* Path::file_stem of a file name: what stands before its last dot, when a
\* dot stands after the first character
Path_file_stem(name) ==
    LET dots == {k \in 2..Len(name) : name[k] = "."}
    IN IF dots = {} THEN name ELSE Sub(name, 1, Max(dots) - 1)

\* Path::with_extension: the last segment, when it is a file name, becomes
\* its stem, a dot and the extension
Path_with_extension(path, extension) ==
    IF path = <<>> \/ path[Len(path)] \in {RootMarker, CurDirText, ParentDirText} THEN path
    ELSE Append(Sub(path, 1, Len(path) - 1),
                Path_file_stem(path[Len(path)]) \o <<".">> \o extension)

\* a variant that puts the separator after every element
RECURSIVE OsStr_join_trailing(_, _)
OsStr_join_trailing(elements, sep) ==
    IF elements = <<>> THEN <<>>
    ELSE Head(elements) \o sep \o OsStr_join_trailing(Tail(elements), sep)

\* Join for &[&OsStr]: the first element, then the separator before each of
\* the others
RECURSIVE OsStr_join(_, _)
OsStr_join(elements, sep) ==
    IF elements = <<>> THEN <<>>
    ELSE IF Len(elements) = 1 THEN Head(elements)
    ELSE Head(elements) \o sep \o OsStr_join(Tail(elements), sep)

\* OsString::into_string: an error when a byte is no UTF-8
OsString_into_string(text) ==
    IF \E k \in 1..Len(text) : text[k] = "^"
    THEN Err(<<[msg |-> "page path (and subsequently the URL) is not valid UTF-8"]>>)
    ELSE Ok(text)

Page_url_path(path) ==
    LET components == Path_components(Path_with_extension(path, <<"h", "t", "m", "l">>), 1)
    IN OsString_into_string(
          OsStr_join([k \in 1..Len(components) |-> components[k].text], <<"/">>))

\* a variant that counts the file name of the page too
RECURSIVE url_path_to_root_fold_all(_, _)
url_path_to_root_fold_all(components, acc) ==
    IF components = <<>> THEN Ok(acc \o <<".", ".", "/">>)
    ELSE IF Head(components).kind = "Normal"
         THEN url_path_to_root_fold_all(Tail(components), acc \o <<".", ".", "/">>)
    ELSE Panic("unexpected path component")

\* the fold of url_path_to_root: `../` for every plain name, a panic at the
\* first component that is none
RECURSIVE url_path_to_root_fold(_, _)
url_path_to_root_fold(components, acc) ==
    IF components = <<>> THEN Ok(acc)
    ELSE IF Head(components).kind = "Normal"
         THEN url_path_to_root_fold(Tail(components), acc \o <<".", ".", "/">>)
    ELSE Panic("unexpected path component")

Page_url_path_to_root(path) ==
    LET folded == url_path_to_root_fold(Path_components(Path_parent(path), 1), <<>>)
    IN IF folded.tag = "ok" THEN OsString_into_string(folded.val) ELSE folded

(***************************************************************************)
(* SpecUrl: the two URLs of a page are computed                            *)
(***************************************************************************)
\* the number of segments of a generated page path
MaxSegments == 3

PlainNames ==
    { <<"a">>, <<"d">>, <<"^">>, <<"a", ".", "m", "d">>, <<".", "m", "d">>,
      <<"a", ".">>, <<"a", ".", "d", ".", "m", "d">>, <<"^", ".", "m", "d">> }

\* the paths of the model: a file name after segments of any kind, the root
\* marker standing first when it stands at all
PagePathsAsWritten ==
    {q \in SeqsUpTo(PlainNames \cup {RootMarker, CurDirText, ParentDirText}, MaxSegments) :
        /\ q # <<>> /\ q[Len(q)] \in PlainNames
        /\ \A k \in 2..Len(q) : q[k] # RootMarker}

InitUrl ==
    /\ pc = "start"
    /\ self_path \in PagePathsAsWritten
    /\ url = NoResult /\ root_url = NoResult
    /\ event = NoResult /\ fixed = NoResult
    /\ IdleRaw /\ IdleRange /\ IdlePre /\ IdleProj /\ IdleRender

UrlPath ==
    /\ pc = "start" /\ url = NoResult
    /\ url' = Page_url_path(self_path)
    /\ pc' = IF root_url = NoResult THEN "start" ELSE "done"
    /\ UNCHANGED <<self_path, root_url, event, fixed, rawVars, rangeVars, preVars, projVars, renderVars>>

UrlPathToRoot ==
    /\ pc = "start" /\ root_url = NoResult
    /\ root_url' = Page_url_path_to_root(self_path)
    /\ pc' = IF url = NoResult THEN "start" ELSE "done"
    /\ UNCHANGED <<self_path, url, event, fixed, rawVars, rangeVars, preVars, projVars, renderVars>>

NextUrl == UrlPath \/ UrlPathToRoot

SpecUrl == InitUrl /\ [][NextUrl]_vars

(***************************************************************************)
(* Claims about the URLs of a page                                         *)
(***************************************************************************)
\* every segment of the path is a plain name
AllPlain(q) == \A k \in 1..Len(q) : q[k] \in PlainNames

ValidUtf8(seg) == \A k \in 1..Len(seg) : seg[k] # "^"

Html == <<".", "h", "t", "m", "l">>

\* the file names of the model with `html` for their extension; a name with
\* no extension (no dot, or its only dot in front) gets one
HtmlName(name) ==
    IF name = <<"a", ".", "m", "d">> THEN <<"a">> \o Html
    ELSE IF name = <<"a", ".", "d", ".", "m", "d">> THEN <<"a", ".", "d">> \o Html
    ELSE IF name = <<"a", ".">> THEN <<"a">> \o Html
    ELSE name \o Html

\* the segments with a `/` between each two of them
RECURSIVE Slashed(_)
Slashed(q) ==
    IF Len(q) = 0 THEN <<>>
    ELSE Slashed(Sub(q, 1, Len(q) - 1)) \o (IF Len(q) > 1 THEN <<"/">> ELSE <<>>) \o q[Len(q)]

\* C14: for a path of plain segments s1..sn, url_path returns the segments
\* joined by `/`, the extension of the last one replaced by `html`, with as
\* many segments in the same order; when a segment is not valid UTF-8 the
\* outcome is an error and no panic.
C14_UrlPath ==
    (url # NoResult /\ AllPlain(self_path)) =>
        LET n == Len(self_path)
            expected == Slashed(Append(Sub(self_path, 1, n - 1), HtmlName(self_path[n])))
        IN  IF \A k \in 1..n : ValidUtf8(self_path[k])
            THEN /\ url = Ok(expected)
                 /\ Cardinality({k \in 1..Len(url.val) : url.val[k] = "/"}) = n - 1
            ELSE /\ url.tag = "err"
                 /\ url.chain = <<[msg |-> "page path (and subsequently the URL) is not valid UTF-8"]>>

\* C14: the URL `d/d/a.html` has been returned for the path d, d, a.md
C14_Witness ==
    /\ self_path = <<(<<"d">>), (<<"d">>), (<<"a", ".", "m", "d">>)>>
    /\ url = Ok(<<"d", "/", "d", "/", "a", ".", "h", "t", "m", "l">>)

\* k copies of `../`
RECURSIVE Ups(_)
Ups(k) == IF k = 0 THEN <<>> ELSE <<".", ".", "/">> \o Ups(k - 1)

\* C15: for a path of k plain directory segments and a file name,
\* url_path_to_root returns k copies of `../`, the empty text for k = 0.
C15_PathToRoot ==
    (root_url # NoResult /\ AllPlain(self_path)) =>
        /\ root_url = Ok(Ups(Len(self_path) - 1))
        /\ Len(self_path) = 1 => root_url = Ok(<<>>)

\* C15: `../../` has been returned for the path d, d, a.md
C15_Witness ==
    /\ self_path = <<(<<"d">>), (<<"d">>), (<<"a", ".", "m", "d">>)>>
    /\ root_url = Ok(<<".", ".", "/", ".", ".", "/">>)

\* the components of the directory of the page that are no plain names: a
\* root marker, a `..`, a `.` that stands first (a `.` further on is no
\* component of the path)
OddComponents ==
    {k \in 1..(Len(self_path) - 1) :
        \/ self_path[k] \in {RootMarker, ParentDirText}
        \/ (k = 1 /\ self_path[k] = CurDirText)}

\* C16: url_path_to_root panics with "unexpected path component", and
\* returns neither a value nor an error, exactly when the directory of the
\* page holds a component that is no plain name.
C16_PanicOnOddComponent ==
    root_url # NoResult =>
        /\ OddComponents # {} => root_url = Panic("unexpected path component")
        /\ OddComponents = {} => root_url.tag = "ok"

\* C16: url_path_to_root has panicked for a path that starts at the root
C16_Witness ==
    /\ Len(self_path) = 3 /\ self_path[1] = RootMarker
    /\ self_path[2] \in PlainNames
    /\ root_url = Panic("unexpected path component")

(***************************************************************************)
(* Claims about the pages and the theme of a Project                       *)
(***************************************************************************)
\* the segments of the relative path of an entry, as texts
SegmentsOf(e) == [k \in 1..Len(e.dir) |-> <<e.dir[k]>>] \o <<e.name>>

\* a plain name: a text with no separator that is neither `.` nor `..`
IsPlainName(seg) ==
    /\ seg # <<>> /\ seg \notin {CurDirText, ParentDirText}
    /\ \A k \in 1..Len(seg) : seg[k] # "/"

\* C17: in a Project that Project::from_path returns, the path of every page
\* is the path of a file of the walk relative to the source directory, made
\* of plain names, with the extension `md`, and no two pages have the same
\* path; url_path_to_root of such a path does not panic.
C17_PagePaths ==
    (pc = "done" /\ project.tag = "ok") =>
        LET ps == project.val.pages IN
        /\ \A i \in 1..Len(ps) :
              \E k \in 1..Len(tree.src) :
                  LET e == tree.src[k] IN
                  /\ ps[i].path = e.dir \o <<PathText(e.name)>>
                  /\ ps[i].path[1] # "root"
                  /\ \A g \in 1..Len(SegmentsOf(e)) : IsPlainName(SegmentsOf(e)[g])
                  /\ Sub(e.name, Len(e.name) - 2, Len(e.name)) = <<".", "m", "d">>
                  /\ Len(e.name) > 3
                  /\ Page_url_path_to_root(SegmentsOf(e)) = Ok(Ups(Len(e.dir)))
        /\ \A i, j \in 1..Len(ps) : i # j => ps[i].path # ps[j].path

\* C17: a Project with a page in the source directory and one below it
C17_Witness ==
    /\ pc = "done" /\ project.tag = "ok" /\ Len(project.val.pages) = 2
    /\ \E i \in 1..2 : project.val.pages[i].path = <<"d", "b.md">>

(***************************************************************************)
(* SpecTheme: Theme::from_path on a theme directory                        *)
(***************************************************************************)
ThemeFileStates == {Missing, Text(<<>>), Text(<<"1">>), Binary}

InitTheme ==
    /\ pc = "start"
    /\ tree \in {[config |-> Missing, theme |-> files, src |-> <<>>] :
                    files \in [1..Len(ThemeFiles) -> ThemeFileStates]}
    /\ visited = 0 /\ config = NoResult /\ theme = NoResult
    /\ pages = <<>> /\ reads = <<>> /\ project = NoResult
    /\ IdleRaw /\ IdleRange /\ IdlePre /\ IdleUrl /\ IdleRender

ThemeFromPath ==
    /\ pc = "start"
    /\ theme' = Theme_from_path(tree.theme)
    /\ reads' = reads \o Theme_reads(tree.theme, 1)
    /\ pc' = "done"
    /\ UNCHANGED <<tree, visited, config, pages, project, rawVars, rangeVars, preVars, urlVars, renderVars>>

NextTheme == ThemeFromPath

SpecTheme == InitTheme /\ [][NextTheme]_vars

\* the contents C18 names for the k-th theme file
ThemeContents(k) ==
    IF tree.theme[k].kind = "missing" THEN [kind |-> "default", of |-> ThemeFiles[k]]
    ELSE tree.theme[k]

\* C18 as stated: whatever files the theme directory holds, Theme::from_path
\* yields the templates base.html, index.html, page.html and the stylesheet
\* css/custom.css, each with the contents of its file when the file exists
\* and the compiled-in default otherwise.
C18_ThemeForEveryDirectory ==
    pc = "done" =>
        /\ theme.tag = "ok"
        /\ theme.val.templates =
              << [name |-> "base.html", contents |-> ThemeContents(1)],
                 [name |-> "index.html", contents |-> ThemeContents(2)],
                 [name |-> "page.html", contents |-> ThemeContents(3)] >>
        /\ theme.val.stylesheets =
              << [path |-> <<"css", "custom.css">>, contents |-> ThemeContents(4)] >>

\* the theme files that exist and cannot be read as text
UnreadableThemeFiles == {k \in 1..Len(ThemeFiles) : tree.theme[k].kind = "binary"}

\* C18, amended: when every theme file that exists can be read as text,
\* Theme::from_path yields the three templates and the stylesheet, each with
\* the contents of its file or the compiled-in default, independently; when
\* one that exists cannot be read, Theme::from_path fails with "failed to
\* read file".
C18_ThemeOfReadableFiles ==
    pc = "done" =>
        /\ UnreadableThemeFiles = {} =>
              /\ theme.tag = "ok"
              /\ theme.val.templates =
                    << [name |-> "base.html", contents |-> ThemeContents(1)],
                       [name |-> "index.html", contents |-> ThemeContents(2)],
                       [name |-> "page.html", contents |-> ThemeContents(3)] >>
              /\ theme.val.stylesheets =
                    << [path |-> <<"css", "custom.css">>, contents |-> ThemeContents(4)] >>
        /\ UnreadableThemeFiles # {} =>
              theme = Err(<<[msg |-> "failed to read file"],
                            [msg |-> "stream did not contain valid UTF-8"]>>)

\* C18: a theme directory that holds page.html only has been loaded
C18_Witness ==
    /\ pc = "done" /\ theme.tag = "ok"
    /\ tree.theme = <<Missing, Missing, Text(<<"1">>), Missing>>
    /\ theme.val.templates[3].contents = Text(<<"1">>)
    /\ theme.val.templates[1].contents.kind = "default"

(***************************************************************************)
(* Rendering: Page::context, Theme::render, Output::to_path                *)
(***************************************************************************)
\* the pages of a rendered project
MaxPages == 2

\* a template that opens an expression and never closes it: the engine
\* rejects it when it is registered
TemplateSyntaxError == Text(<<"{", "{">>)
\* a template that prints a variable no context holds: the engine fails when
\* it renders it
TemplateUndefined == Text(<<"{", "{", "x", "}", "}">>)

\* Theme::raw_templates: the name and the contents of every template
Theme_raw_templates(self) ==
    [k \in 1..Len(self.templates) |->
        [name |-> self.templates[k].name, contents |-> self.templates[k].contents]]

\* Tera::add_raw_templates: every template is parsed
Tera_add_raw_templates(raw) ==
    IF \E k \in 1..Len(raw) : raw[k].contents = TemplateSyntaxError
    THEN Err(<<[msg |-> "failed to parse template"]>>)
    ELSE Ok(raw)

\* Tera::render: the text is a function of the template and, when the
\* template has expressions, of the context
Tera_render(registered, name, context) ==
    LET template == registered[CHOOSE k \in 1..Len(registered) : registered[k].name = name]
    IN  IF template.contents = TemplateUndefined
        THEN Err(<<[msg |-> "variable not found in context while rendering"]>>)
        ELSE Ok([kind |-> "html", template |-> template.contents,
                 context |-> IF template.contents.kind = "default" THEN context
                             ELSE NoResult])

\* a variant that keeps the value of a key that has one
Context_insert_keep(context, key, value) ==
    [k \in DOMAIN context \cup {key} |->
        IF k \in DOMAIN context THEN context[k] ELSE value]

\* Config::as_context: the configuration as the file has it
Config_as_context(self) == self.inner

\* tera::Context::insert: the value of a key is set, whatever it was
Context_insert(context, key, value) ==
    [k \in DOMAIN context \cup {key} |-> IF k = key THEN value ELSE context[k]]

\* Renderer::render: the HTML of the Markdown text
Renderer_render(markdown) == [kind |-> "html", of |-> markdown]

\* Page::context
Page_context(self) ==
    LET path == Page_url_path(self.path)
    IN  IF path.tag # "ok" THEN path
        ELSE Ok([meta |-> self.front_matter, path |-> path.val,
                 content |-> Renderer_render(self.contents)])

File_new(path, file_contents) == [path |-> path, contents |-> file_contents]

\* the path of a theme file or of a page, written character by character
PathBuf_chars(path) ==
    [k \in 1..Len(path) |->
        CASE path[k] = "css" -> <<"c", "s", "s">>
          [] path[k] = "custom.css" -> <<"c", "u", "s", "t", "o", "m", ".", "c", "s", "s">>
          [] path[k] = "templates" -> <<"t", "e", "m", "p", "l", "a", "t", "e", "s">>
          [] path[k] = "a.md" -> <<"a", ".", "m", "d">>
          [] path[k] = "b.md" -> <<"b", ".", "m", "d">>
          [] path[k] = "d" -> <<"d">>
          [] OTHER -> <<"?">>]

\* From<Stylesheet> for output::File
File_from_stylesheet(stylesheet) ==
    File_new(PathBuf_chars(stylesheet.path), stylesheet.contents)

IndexHtml == << <<"i", "n", "d", "e", "x", ".", "h", "t", "m", "l">> >>

\* a variant of the loop body that goes on to the next page when a page
\* fails to render
Theme_render_page_skip(registered, ctx, page_path, page_context, to_root) ==
    LET this_ctx == Context(page_context,
                            [msg |-> "failed to generate render context for page",
                             path |-> page_path])
    IN  IF this_ctx.tag # "ok"
        THEN [page_ctx |-> ctx, push |-> <<>>, renders |-> <<>>, files |-> <<>>,
              result |-> this_ctx]
        ELSE IF to_root.tag # "ok"
        THEN [page_ctx |-> Context_insert(ctx, "this", this_ctx.val), push |-> <<>>,
              renders |-> <<>>, files |-> <<>>, result |-> to_root]
        ELSE LET with_root == Context_insert(Context_insert(ctx, "this", this_ctx.val),
                                             "path_to_root", to_root.val)
                 text == Context(Tera_render(registered, "page.html", with_root),
                                 [msg |-> "failed to render page", path |-> page_path])
             IN  [page_ctx |-> with_root, push |-> <<this_ctx.val>>,
                  renders |-> <<[name |-> "page.html", context |-> with_root,
                                 ok |-> text.tag = "ok"]>>,
                  files |-> IF text.tag = "ok"
                            THEN <<File_new(Path_with_extension(page_path, <<"h", "t", "m", "l">>),
                                            text.val)>>
                            ELSE <<>>,
                  result |-> NoResult]

\* the body of the loop of Theme::render for one page: what it leaves in
\* page_ctx, what it pushes to pages_ctx, the render it makes, the file it
\* pushes, and the Result it returns with, if it returns
Theme_render_page(registered, ctx, page_path, page_context, to_root) ==
    LET this_ctx == Context(page_context,
                            [msg |-> "failed to generate render context for page",
                             path |-> page_path])
    IN  IF this_ctx.tag # "ok"
        THEN [page_ctx |-> ctx, push |-> <<>>, renders |-> <<>>, files |-> <<>>,
              result |-> this_ctx]
        ELSE IF to_root.tag # "ok"
        THEN [page_ctx |-> Context_insert(ctx, "this", this_ctx.val), push |-> <<>>,
              renders |-> <<>>, files |-> <<>>, result |-> to_root]
        ELSE LET with_root == Context_insert(Context_insert(ctx, "this", this_ctx.val),
                                             "path_to_root", to_root.val)
                 text == Context(Tera_render(registered, "page.html", with_root),
                                 [msg |-> "failed to render page", path |-> page_path])
             IN  [page_ctx |-> with_root, push |-> <<this_ctx.val>>,
                  renders |-> <<[name |-> "page.html", context |-> with_root,
                                 ok |-> text.tag = "ok"]>>,
                  files |-> IF text.tag = "ok"
                            THEN <<File_new(Path_with_extension(page_path, <<"h", "t", "m", "l">>),
                                            text.val)>>
                            ELSE <<>>,
                  result |-> IF text.tag = "ok" THEN NoResult ELSE text]

\* fs::write into the directory: the file at the path is created or replaced
fs_write(dir, path, file_contents) ==
    [exists |-> TRUE,
     files |-> {f \in dir.files : f.path # path} \cup {File_new(path, file_contents)}]

\* a variant that creates the directory and removes nothing
recreate_dir_keep(dir) == [exists |-> TRUE, files |-> dir.files]

\* util::recreate_dir: the directory is removed with all it holds, and created
recreate_dir(dir) == [exists |-> TRUE, files |-> {}]

\* the path is a file of the directory
IsFile(dir, path) == \E f \in dir.files : f.path = path

\* the path is a directory below the directory: a file lies under it
IsDirectory(dir, path) ==
    \E f \in dir.files : Len(f.path) > Len(path) /\ Sub(f.path, 1, Len(path)) = path

\* fs::create_dir_all: an error when a file stands where a directory is to be
fs_create_dir_all(dir, path) ==
    IF \E k \in 1..Len(path) : IsFile(dir, Sub(path, 1, k))
    THEN Err(<<[msg |-> "File exists (os error 17)"]>>)
    ELSE Ok(dir)

\* the body of the loop of Output::to_path for one file: the directory after
\* it and the Result it returns with, if it returns
Output_write_file(dir, file) ==
    LET created == Context(fs_create_dir_all(dir, Path_parent(file.path)),
                           [msg |-> "failed to create directory",
                            path |-> Path_parent(file.path)])
    IN  IF created.tag = "err" THEN [dir |-> dir, result |-> created]
        ELSE IF IsDirectory(dir, file.path)
        THEN [dir |-> dir,
              result |-> Err(<<[msg |-> "failed to write file", path |-> file.path],
                               [msg |-> "Is a directory (os error 21)"]>>)]
        ELSE [dir |-> fs_write(dir, file.path, file.contents), result |-> NoResult]

\* the loop of Output::to_path: every file is written, in order, up to the
\* first that cannot be
RECURSIVE Output_write_files(_, _, _)
Output_write_files(files, k, dir) ==
    IF k > Len(files) THEN [dir |-> dir, result |-> Ok("unit")]
    ELSE LET step == Output_write_file(dir, files[k])
         IN  IF step.result # NoResult THEN step
             ELSE Output_write_files(files, k + 1, step.dir)

\* Output::to_path: the output directory it leaves and its Result
Output_to_path(files, dir) == Output_write_files(files, 1, recreate_dir(dir))

(***************************************************************************)
(* SpecRender: Theme::render page by page, then Output::to_path            *)
(***************************************************************************)
RenderPaths ==
    { << <<"a", ".", "m", "d">> >>,
      << <<"i", "n", "d", "e", "x", ".", "m", "d">> >>,
      << <<"d">>, <<"a", ".", "m", "d">> >>,
      << <<"^", ".", "m", "d">> >>,
      << <<"a", ".", "h", "t", "m", "l">>, <<"b", ".", "m", "d">> >> }

RenderPages ==
    {[path |-> q, front_matter |-> [title |-> None], contents |-> c] :
        q \in RenderPaths, c \in {<<"1">>, <<"2">>}}

\* the pages of a Project: no two have the same path
RenderPageLists ==
    {q \in SeqsUpTo(RenderPages, MaxPages) :
        \A i, j \in 1..Len(q) : q[i].path = q[j].path => i = j}

\* the theme directories of the model
RenderThemeFiles ==
    {f \in [1..Len(ThemeFiles) -> {Missing, Text(<<"1">>), TemplateSyntaxError,
                                   TemplateUndefined}] :
        /\ f[1] \in {Missing, TemplateSyntaxError}
        /\ f[2] \in {Missing, Text(<<"1">>), TemplateUndefined}
        /\ f[3] \in {Missing, TemplateUndefined}
        /\ f[4] \in {Missing, Text(<<"1">>)}}

\* the configurations of the model: the default one, and one with a title
RenderConfigs ==
    { Config_new(<<"root">>),
      [root_dir |-> <<"root">>,
       inner |-> [project |-> [title |-> Some(<<"1">>), authors |-> None], rest |-> {}]] }

NoDir == [exists |-> FALSE, files |-> {}]

\* the output directory an earlier run left
StaleDir ==
    [exists |-> TRUE,
     files |-> {File_new(<< <<"o", ".", "h", "t", "m", "l">> >>, [kind |-> "stale"])}]

InitRender ==
    /\ pc = "start"
    /\ rendering \in {[theme |-> Theme_from_path(f).val, config |-> c, pages |-> q] :
                       f \in RenderThemeFiles, c \in RenderConfigs, q \in RenderPageLists}
    /\ templates = NoResult /\ base_ctx = NoResult /\ page_ctx = NoResult
    /\ pages_ctx = <<>> /\ output = <<>> /\ renders = <<>> /\ rendered = NoResult
    /\ output_dir \in {NoDir, StaleDir} /\ written = NoResult /\ fs_log = <<>>
    /\ IdleRaw /\ IdleRange /\ IdlePre /\ IdleProj /\ IdleUrl

otherVars == <<rawVars, rangeVars, preVars, projVars, urlVars>>

\* Theme::render up to its loop
RegisterTemplates ==
    /\ pc = "start"
    /\ LET registered == Context(Tera_add_raw_templates(Theme_raw_templates(rendering.theme)),
                                 [msg |-> "failed to register templates"])
           ctx == Context_insert(Context_insert(<<>>, "config",
                                                Config_as_context(rendering.config)),
                                 "path_to_root", <<>>)
       IN  IF registered.tag = "err"
           THEN /\ rendered' = registered /\ pc' = "done"
                /\ UNCHANGED <<templates, base_ctx, page_ctx>>
           ELSE /\ templates' = registered.val /\ base_ctx' = ctx /\ page_ctx' = ctx
                /\ pc' = "pages" /\ UNCHANGED rendered
    /\ UNCHANGED <<rendering, pages_ctx, output, renders, output_dir, written, fs_log, otherVars>>

\* one turn of the loop of Theme::render
RenderPage ==
    /\ pc = "pages" /\ Len(pages_ctx) < Len(rendering.pages)
    /\ LET this_page == rendering.pages[Len(pages_ctx) + 1]
           step == Theme_render_page(templates, page_ctx, this_page.path,
                                     Page_context(this_page),
                                     Page_url_path_to_root(this_page.path))
       IN  /\ page_ctx' = step.page_ctx
           /\ pages_ctx' = pages_ctx \o step.push
           /\ renders' = renders \o step.renders
           /\ output' = output \o step.files
           /\ rendered' = step.result
           /\ pc' = IF step.result = NoResult THEN "pages" ELSE "done"
    /\ UNCHANGED <<rendering, templates, base_ctx, output_dir, written, fs_log, otherVars>>

\* Theme::render after its loop: the index
RenderIndex ==
    /\ pc = "pages" /\ Len(pages_ctx) = Len(rendering.pages)
    /\ LET ctx == Context_insert(base_ctx, "pages", pages_ctx)
           text == Context(Tera_render(templates, "index.html", ctx),
                           [msg |-> "failed to render page", path |-> IndexHtml])
       IN  /\ base_ctx' = ctx
           /\ renders' = Append(renders, [name |-> "index.html", context |-> ctx,
                                          ok |-> text.tag = "ok"])
           /\ IF text.tag = "ok"
              THEN /\ output' = Append(output, File_new(IndexHtml, text.val))
                   /\ pc' = "stylesheets" /\ UNCHANGED rendered
              ELSE /\ rendered' = text /\ pc' = "done" /\ UNCHANGED output
    /\ UNCHANGED <<rendering, templates, page_ctx, pages_ctx, output_dir, written, fs_log, otherVars>>

\* Theme::render to its end: the stylesheets
PushStylesheets ==
    /\ pc = "stylesheets"
    /\ LET stylesheets == rendering.theme.stylesheets
           files == output \o [k \in 1..Len(stylesheets) |-> File_from_stylesheet(stylesheets[k])]
       IN  output' = files /\ rendered' = Ok(files)
    /\ pc' = "rendered"
    /\ UNCHANGED <<rendering, templates, base_ctx, page_ctx, pages_ctx, renders,
                   output_dir, written, fs_log, otherVars>>

\* Output::to_path up to its loop: the output directory is recreated
ToPathRecreate ==
    /\ pc = "rendered"
    /\ output_dir' = recreate_dir(output_dir)
    /\ fs_log' = << [op |-> "remove_dir_all", found |-> output_dir.exists,
                      removed |-> output_dir.files],
                     [op |-> "create_dir_all"] >>
    /\ pc' = "writing"
    /\ UNCHANGED <<rendering, templates, base_ctx, page_ctx, pages_ctx, output, renders,
                   rendered, written, otherVars>>

\* the writes made so far
Writes == {k \in 1..Len(fs_log) : fs_log[k].op = "write"}

\* one turn of the loop of Output::to_path
ToPathWrite ==
    /\ pc = "writing" /\ Cardinality(Writes) < Len(rendered.val)
    /\ LET file == rendered.val[Cardinality(Writes) + 1]
           step == Output_write_file(output_dir, file)
       IN  /\ output_dir' = step.dir
           /\ IF step.result = NoResult
              THEN /\ fs_log' = Append(fs_log, [op |-> "write", path |-> file.path])
                   /\ UNCHANGED <<pc, written>>
              ELSE /\ written' = step.result /\ pc' = "done" /\ UNCHANGED fs_log
    /\ UNCHANGED <<rendering, templates, base_ctx, page_ctx, pages_ctx, output, renders,
                   rendered, otherVars>>

\* Output::to_path after its loop
ToPathReturn ==
    /\ pc = "writing" /\ Cardinality(Writes) = Len(rendered.val)
    /\ written' = Ok("unit")
    /\ pc' = "done"
    /\ UNCHANGED <<rendering, templates, base_ctx, page_ctx, pages_ctx, output, renders,
                   rendered, output_dir, fs_log, otherVars>>

NextRender ==
    \/ RegisterTemplates \/ RenderPage \/ RenderIndex \/ PushStylesheets
    \/ ToPathRecreate \/ ToPathWrite \/ ToPathReturn

SpecRender == InitRender /\ [][NextRender]_vars


(***************************************************************************)
(* Claims about the files of a render                                      *)
(***************************************************************************)
\* the output path of the i-th page of the project
PageHtml(i) == Path_with_extension(rendering.pages[i].path, <<"h", "t", "m", "l">>)

\* the output paths C19 names, in its order
ExpectedPaths ==
    [i \in 1..Len(rendering.pages) |-> PageHtml(i)]
        \o <<IndexHtml>>
        \o [k \in 1..Len(rendering.theme.stylesheets) |->
               PathBuf_chars(rendering.theme.stylesheets[k].path)]

\* the files of the output directory at a path
FilesAt(path) == {f \in output_dir.files : f.path = path}

\* C19 as stated, of the output directory: after a successful render and
\* write of a project with n pages the output directory holds exactly
\* n + 1 + (number of stylesheets) files: for each page the page's rendering
\* at the page's path with the extension html, the index at index.html, and
\* each stylesheet verbatim at its path.
C19_OutputFiles ==
    (pc = "done" /\ written.tag = "ok") =>
        /\ Cardinality(output_dir.files) =
              Len(rendering.pages) + 1 + Len(rendering.theme.stylesheets)
        /\ \A i \in 1..Len(ExpectedPaths) :
              FilesAt(ExpectedPaths[i]) = {rendered.val[i]}

\* C19, of the list of files Theme::render returns: it has n + 1 +
\* (number of stylesheets) entries, the pages in project order at their
\* paths with the extension html, then index.html, then each stylesheet
\* with the contents the theme has for it; with no page and the default
\* theme these are index.html and css/custom.css.
C19_OutputList ==
    rendered.tag = "ok" =>
        /\ Len(rendered.val) = Len(rendering.pages) + 1 + Len(rendering.theme.stylesheets)
        /\ [k \in 1..Len(rendered.val) |-> rendered.val[k].path] = ExpectedPaths
        /\ \A k \in 1..Len(rendering.theme.stylesheets) :
              rendered.val[Len(rendering.pages) + 1 + k].contents =
                  rendering.theme.stylesheets[k].contents
        /\ rendering.pages = <<>> =>
              [k \in 1..Len(rendered.val) |-> rendered.val[k].path] =
                  << IndexHtml,
                     << <<"c", "s", "s">>,
                        <<"c", "u", "s", "t", "o", "m", ".", "c", "s", "s">> >> >>

\* C19: a project with the pages a.md and d/a.md has been rendered and
\* written
C19_Witness ==
    /\ pc = "done" /\ written.tag = "ok" /\ Len(rendering.pages) = 2
    /\ Cardinality(output_dir.files) = 4

\* C20: whenever the index template is rendered, every page of the project
\* has been rendered before it, successfully and in project order, each with
\* the `this` context of that page, and the `pages` array of the context of
\* the index holds exactly these `this` contexts, one per page, in project
\* order.
C20_IndexPages ==
    \A k \in 1..Len(renders) :
        renders[k].name = "index.html" =>
            /\ k = Len(rendering.pages) + 1
            /\ \A i \in 1..(k - 1) :
                  /\ renders[i].name = "page.html" /\ renders[i].ok
                  /\ Ok(renders[i].context.this) = Page_context(rendering.pages[i])
            /\ renders[k].context.pages = [i \in 1..(k - 1) |-> renders[i].context.this]

\* C20: the index of a project of two pages has been rendered with the
\* contexts of both
C20_Witness ==
    /\ pc = "done" /\ written.tag = "ok" /\ Len(rendering.pages) = 2
    /\ Len(renders) = 3 /\ renders[3].name = "index.html"
    /\ Len(renders[3].context.pages) = 2
    /\ renders[3].context.pages[1] # renders[3].context.pages[2]

(***************************************************************************)
(* Claims about the output directory                                       *)
(***************************************************************************)
\* C21: every write to the output directory comes after the directory was
\* removed and created, and nothing is removed after a write; after a
\* successful Output::to_path the directory exists, every file in it is a
\* file of this render, every path of this render has a file in it, and no
\* file of an earlier run is left.
C21_RecreatedBeforeWritten ==
    /\ \A k \in Writes :
          /\ \E i \in 1..(k - 1) : \E j \in (i + 1)..(k - 1) :
                fs_log[i].op = "remove_dir_all" /\ fs_log[j].op = "create_dir_all"
          /\ \A j \in (k + 1)..Len(fs_log) : fs_log[j].op = "write"
    /\ pc \in {"writing", "done"} /\ fs_log # <<>> =>
          \A f \in output_dir.files :
              /\ \E k \in Writes : fs_log[k].path = f.path
              /\ f \notin fs_log[1].removed
    /\ (pc = "done" /\ written.tag = "ok") =>
          /\ output_dir.exists
          /\ \A f \in output_dir.files : \E k \in 1..Len(rendered.val) : rendered.val[k] = f
          /\ \A k \in 1..Len(rendered.val) : IsFile(output_dir, rendered.val[k].path)

\* C21: a render has been written to an output directory that an earlier run
\* had left with a file
C21_Witness ==
    /\ pc = "done" /\ written.tag = "ok"
    /\ fs_log[1].found /\ fs_log[1].removed # {}
    /\ Cardinality(output_dir.files) >= 3

\* C22: the files of one render have pairwise distinct paths, and no write
\* of Output::to_path replaces a file written earlier in the same run.
C22_DistinctPaths ==
    /\ rendered.tag = "ok" =>
          \A i, j \in 1..Len(rendered.val) :
              rendered.val[i].path = rendered.val[j].path => i = j
    /\ \A i, j \in Writes : fs_log[i].path = fs_log[j].path => i = j

(***************************************************************************)
(* Claims about the frame of Page::preprocess                              *)
(***************************************************************************)
\* C24: whenever Page::preprocess succeeds the page returned has the path and
\* the front matter of the page given, and the page given is as it was.
C24_OnlyContentsChange ==
    (pc = "done" /\ new_page.tag = "ok") =>
        /\ new_page.val.path = page.path
        /\ new_page.val.front_matter = page.front_matter
        /\ page.front_matter = PageFrontMatter(page.path)

\* C24: a page with a title has been preprocessed and an include resolved
C24_Witness ==
    /\ pc = "done" /\ new_page.tag = "ok"
    /\ page.front_matter.title = Some(<<"1">>)
    /\ substituted # <<>>
    /\ new_page.val.contents # page.contents

(***************************************************************************)
(* Claims about the extent of the front matter block                       *)
(***************************************************************************)
\* the positions of s, after the opening delimiter at o, where a `+++` stands
\* that a newline follows
LaterDelims(o) ==
    {c \in (o + 3)..Len(s) :
        At(s, c, Delim) /\ (At(s, c + 3, <<"\n">>) \/ At(s, c + 3, <<"\r", "\n">>))}

\* the first position at or after i of s where no `\n` or `\r\n` starts
RECURSIVE AfterNewlines(_)
AfterNewlines(i) ==
    IF i <= Len(s) /\ s[i] = "\n" THEN AfterNewlines(i + 1)
    ELSE IF i < Len(s) /\ s[i] = "\r" /\ s[i + 1] = "\n" THEN AfterNewlines(i + 2)
    ELSE i

\* C26: when a document opens, after whitespace, with `+++` and several
\* later `+++` are followed by a newline, the metadata body is the text up
\* to the last of them, earlier ones included, and the contents are the text
\* after the last one and its newlines: the document parses to what the TOML
\* of that body gives, an error when that body is no TOML.
C26_BodyEndsAtLastDelimiter ==
    pc = "done" =>
        \A o \in 1..Len(s) :
            (At(s, o, Delim) /\ LeadingSpace(s, o) /\ Cardinality(LaterDelims(o)) >= 2) =>
                LET last == Max(LaterDelims(o))
                    parsed == FrontMatter_from_toml(Sub(s, o + 3, last - 1))
                IN  raw_page =
                        IF parsed.tag = "ok"
                        THEN Ok([front_matter |-> parsed.val,
                                 contents |-> Sub(s, AfterNewlines(last + 3), Len(s))])
                        ELSE Err(<<[msg |-> "failed to parse front matter"]>> \o parsed.chain)

\* C26: a parsed document with two closing delimiters, the first of which
\* ends a body that is TOML
C26_Witness ==
    /\ pc = "done"
    /\ \E o \in 1..Len(s) :
          /\ At(s, o, Delim) /\ LeadingSpace(s, o) /\ Cardinality(LaterDelims(o)) >= 2
          /\ toml_from_str(Sub(s, o + 3, Min(LaterDelims(o)) - 1)).ok
    /\ raw_page.tag = "err"

(***************************************************************************)
(* Claims about the scan for directives                                    *)
(***************************************************************************)
\* C27: the scan of a page finds one directive per well-formed include
\* marker, over the span of the marker, and when the page is preprocessed
\* each marker has been replaced over its own span.
C27_OneDirectivePerMarker ==
    pc # "start" =>
        \A mk \in MarkersOf({<<"f">>, <<"f", ":", "2", ":", "3">>, <<"f", ":", "2", ":">>}) :
            /\ \E i \in 1..Len(Matches) :
                  Matches[i].start = mk.start /\ Matches[i].stop = mk.stop
            /\ (pc = "done" /\ new_page.tag = "ok") =>
                  \E k \in 1..Len(substituted) :
                      /\ substituted[k].directive.start = mk.start
                      /\ substituted[k].directive.stop = mk.stop

(***************************************************************************)
(* Claims about the contexts of a render                                   *)
(***************************************************************************)
\* C28: the k-th render of the page template is made for the k-th page of
\* the project, with a context of exactly `config`, the configuration of the
\* project, `this`, the context of that page, and `path_to_root`, the path
\* from that page to the root; the index template is rendered with a context
\* of exactly `config`, `path_to_root`, the empty text, and `pages`.
C28_ContextOfEachRender ==
    \A k \in 1..Len(renders) :
        /\ renders[k].name = "page.html" =>
              /\ k <= Len(rendering.pages)
              /\ DOMAIN renders[k].context = {"config", "this", "path_to_root"}
              /\ renders[k].context.config = rendering.config.inner
              /\ Ok(renders[k].context.this) = Page_context(rendering.pages[k])
              /\ Ok(renders[k].context.path_to_root) =
                    Page_url_path_to_root(rendering.pages[k].path)
        /\ renders[k].name = "index.html" =>
              /\ DOMAIN renders[k].context = {"config", "path_to_root", "pages"}
              /\ renders[k].context.config = rendering.config.inner
              /\ renders[k].context.path_to_root = <<>>

\* C28: a page of the content root has been rendered after a page of a
\* directory, and then the index
C28_Witness ==
    /\ Len(renders) = 3 /\ renders[3].name = "index.html"
    /\ renders[1].context.path_to_root = <<".", ".", "/">>
    /\ renders[2].context.path_to_root = <<>>
    /\ renders[1].context.this # renders[2].context.this
    /\ rendering.config.inner.project.title = Some(<<"1">>)

(***************************************************************************)
(* The build command: Project::from_path, the preprocessing of every page, *)
(* Project::render and Output::to_path, each as one call                   *)
(***************************************************************************)
\* the collection of the pages of Project::from_path: the entries of the
\* walk that are Markdown files, loaded in order up to the first that fails
RECURSIVE Project_load_pages(_, _, _)

\* the page loaded is pushed, or its error returned
Project_push_page(src, k, acc, loaded) ==
    IF loaded.tag = "err" THEN loaded
    ELSE Project_load_pages(src, k + 1, Append(acc, loaded.val))

Project_load_pages(src, k, acc) ==
    IF k > Len(src) THEN Ok(acc)
    ELSE IF ~is_md(src[k]) THEN Project_load_pages(src, k + 1, acc)
    ELSE Project_push_page(src, k, acc,
             Context(Page_from_path(Config_src_dir, Entry_path(src[k]), src[k].file),
                     [msg |-> "failed to load page", path |-> Entry_path(src[k])]))

\* the Project of a config, a theme and pages, or the first of their errors
Project_of(loaded_config, loaded_theme, loaded_pages) ==
    IF loaded_config.tag = "err" THEN loaded_config
    ELSE IF loaded_theme.tag = "err" THEN loaded_theme
    ELSE IF loaded_pages.tag = "err" THEN loaded_pages
    ELSE Ok([config |-> loaded_config.val, theme |-> loaded_theme.val,
             pages |-> loaded_pages.val])

\* Project::from_path
Project_from_path(files) ==
    Project_of(Context(Config_from_path(root_dir, files.config),
                       [msg |-> "failed to load config"]),
               Context(Theme_from_path(files.theme), [msg |-> "failed to load theme"]),
               Project_load_pages(files.src, 1, <<>>))

RECURSIVE preprocess_loop(_, _, _, _, _)

\* the text read replaces the directive, or its error is returned
preprocess_replace(text, ds, prev, out, page_path, read, range) ==
    IF read.tag = "err" THEN read
    ELSE preprocess_loop(text, Tail(ds), range.end,
                         out \o Sub(text, prev, range.start - 1) \o read.val, page_path)

\* the loop of preprocess, to its end or to the first read that fails
preprocess_loop(text, ds, prev, out, page_path) ==
    IF ds = <<>> THEN Ok(out \o Sub(text, prev, Len(text)))
    ELSE preprocess_replace(text, ds, prev, out, page_path,
                            Include_read(Head(ds).include, page_path),
                            Directive_range(Head(ds)))

\* preprocess
preprocess(path, text) ==
    preprocess_loop(text, find_directives(text).directives, 1, <<>>,
                    Path_join(Config_src_dir, path))

\* the page with the contents preprocessed, or the error
Page_preprocessed(self, preprocessed) ==
    IF preprocessed.tag = "err" THEN preprocessed
    ELSE Page_preprocess_ok(self, preprocessed.val)

\* Page::preprocess
Page_preprocess(self) ==
    Page_preprocessed(self, Context(preprocess(self.path, self.contents),
                                    [msg |-> "failed to preprocess page", path |-> self.path]))

RECURSIVE Project_preprocess_pages(_, _, _)

Project_push_preprocessed(loaded, k, acc, preprocessed) ==
    IF preprocessed.tag = "err" THEN preprocessed
    ELSE Project_preprocess_pages(loaded, k + 1, Append(acc, preprocessed.val))

\* the preprocessing of the pages of a Project, in order, up to the first
\* page that fails
Project_preprocess_pages(loaded, k, acc) ==
    IF k > Len(loaded) THEN Ok(acc)
    ELSE Project_push_preprocessed(loaded, k, acc, Page_preprocess(loaded[k]))

Project_preprocessed(self, preprocessed) ==
    IF preprocessed.tag = "err" THEN preprocessed
    ELSE Ok([config |-> self.config, theme |-> self.theme, pages |-> preprocessed.val])

\* Project::preprocess
Project_preprocess(self) ==
    Project_preprocessed(self, Project_preprocess_pages(self.pages, 1, <<>>))

RECURSIVE Theme_render_pages(_, _, _, _, _, _)

\* a page rendered: its file and context are pushed, or its error returned
Theme_render_push(registered, given, k, files, contexts, step) ==
    IF step.result # NoResult
    THEN [files |-> files, pages_ctx |-> contexts, result |-> step.result]
    ELSE Theme_render_pages(registered, step.page_ctx, given, k + 1,
                            files \o step.files, contexts \o step.push)

\* the loop of Theme::render from its k-th page on: the files pushed, the
\* page contexts accumulated, and the Result it returns with, if it returns
Theme_render_pages(registered, ctx, given, k, files, contexts) ==
    IF k > Len(given) THEN [files |-> files, pages_ctx |-> contexts, result |-> NoResult]
    ELSE Theme_render_push(registered, given, k, files, contexts,
                           Theme_render_page(registered, ctx, given[k].path,
                                             Page_context(given[k]),
                                             Page_url_path_to_root(given[k].path)))

\* the index page and the stylesheets follow the pages
Theme_render_index(self, looped, text) ==
    IF looped.result # NoResult THEN looped.result
    ELSE IF text.tag = "err" THEN text
    ELSE Ok(looped.files \o <<File_new(IndexHtml, text.val)>>
               \o [k \in 1..Len(self.stylesheets) |->
                      File_from_stylesheet(self.stylesheets[k])])

Theme_render_looped(self, registered, ctx, looped) ==
    Theme_render_index(self, looped,
                       Context(Tera_render(registered, "index.html",
                                           Context_insert(ctx, "pages", looped.pages_ctx)),
                               [msg |-> "failed to render page", path |-> IndexHtml]))

Theme_render_registered(self, given, registered, ctx) ==
    IF registered.tag = "err" THEN registered
    ELSE Theme_render_looped(self, registered.val, ctx,
                             Theme_render_pages(registered.val, ctx, given, 1, <<>>, <<>>))

\* Theme::render
Theme_render(self, given_config, given) ==
    Theme_render_registered(self, given,
        Context(Tera_add_raw_templates(Theme_raw_templates(self)),
                [msg |-> "failed to register templates"]),
        Context_insert(Context_insert(<<>>, "config", Config_as_context(given_config)),
                       "path_to_root", <<>>))

\* Project::render
Project_render(self) ==
    Context(Theme_render(self.theme, self.config,
                         [k \in 1..Len(self.pages) |->
                             [path |-> PathBuf_chars(self.pages[k].path),
                              front_matter |-> self.pages[k].front_matter,
                              contents |-> self.pages[k].contents]]),
            [msg |-> "failed to render project"])

\* a variant of the build in which rendering starts by recreating the output
\* directory
Build_render_dir_recreate(dir) == recreate_dir(dir)

\* the output directory after Project::render: the one before it
Build_render_dir(dir) == dir

(***************************************************************************)
(* SpecBuild: the build command, call by call                              *)
(***************************************************************************)
BuildDocs ==
    { <<"1">>,
      <<"\n">> \o Delim \o <<"\n", "1", " ", "1", "\n">> \o Delim \o <<"\n", "1">>,
      Marker(<<>>, IncludeName, <<"f">>, <<>>),
      Marker(<<>>, IncludeName, <<"g">>, <<>>) }

BuildEntries ==
    {[dir |-> n.dir, name |-> n.name, file |-> Text(d)] :
        n \in {e \in EntryNames : is_md(e)}, d \in BuildDocs}

BuildWalks ==
    {w \in SeqsUpTo(BuildEntries, MaxFiles) :
        \A i, j \in 1..Len(w) : i # j => <<w[i].dir, w[i].name>> # <<w[j].dir, w[j].name>>}

BuildThemes ==
    { <<Missing, Missing, Missing, Missing>>,
      <<Missing, Missing, TemplateUndefined, Missing>>,
      <<Missing, TemplateUndefined, Missing, Missing>>,
      <<Binary, Missing, Missing, Missing>> }

InitBuild ==
    /\ pc = "start"
    /\ tree \in {[config |-> c, theme |-> th, src |-> w] :
                    c \in {Text(<<>>), Missing}, th \in BuildThemes, w \in BuildWalks}
    /\ visited = 0 /\ config = NoResult /\ theme = NoResult
    /\ pages = <<>> /\ reads = <<>> /\ project = NoResult
    /\ rendering = NoResult /\ templates = NoResult
    /\ base_ctx = NoResult /\ page_ctx = NoResult
    /\ pages_ctx = <<>> /\ output = <<>> /\ renders = <<>> /\ rendered = NoResult
    /\ output_dir \in {NoDir, StaleDir} /\ written = NoResult /\ fs_log = <<>>
    /\ IdleRaw /\ IdleRange /\ IdlePre /\ IdleUrl

buildFrame ==
    <<tree, visited, config, theme, pages, reads, rendering, templates, base_ctx, page_ctx,
      pages_ctx, output, renders, fs_log, rawVars, rangeVars, preVars, urlVars>>

\* app::Project::from_path(current_dir).context("failed to load project")?
BuildLoad ==
    /\ pc = "start"
    /\ project' = Context(Project_from_path(tree), [msg |-> "failed to load project"])
    /\ pc' = IF project'.tag = "ok" THEN "loaded" ELSE "done"
    /\ UNCHANGED <<rendered, output_dir, written, buildFrame>>

\* .preprocess().context("failed to preprocess project")?
BuildPreprocess ==
    /\ pc = "loaded"
    /\ project' = Context(Project_preprocess(project.val),
                          [msg |-> "failed to preprocess project"])
    /\ pc' = IF project'.tag = "ok" THEN "preprocessed" ELSE "done"
    /\ UNCHANGED <<rendered, output_dir, written, buildFrame>>

\* project.render().context("failed to render project")?
BuildRender ==
    /\ pc = "preprocessed"
    /\ rendered' = Context(Project_render(project.val), [msg |-> "failed to render project"])
    /\ output_dir' = Build_render_dir(output_dir)
    /\ pc' = IF rendered'.tag = "ok" THEN "rendered" ELSE "done"
    /\ UNCHANGED <<project, written, buildFrame>>

\* output.to_path().context("failed to write rendered project")?
BuildToPath ==
    /\ pc = "rendered"
    /\ LET wrote == Output_to_path(rendered.val, output_dir)
       IN  /\ output_dir' = wrote.dir
           /\ written' = Context(wrote.result, [msg |-> "failed to write rendered project"])
    /\ pc' = "done"
    /\ UNCHANGED <<project, rendered, buildFrame>>

NextBuild == BuildLoad \/ BuildPreprocess \/ BuildRender \/ BuildToPath

SpecBuild == InitBuild /\ [][NextBuild]_vars

(***************************************************************************)
(* Claims about the build command                                          *)
(***************************************************************************)
\* the calls agree with the steps of the other specifications
ProjectAgrees == pc = "done" => project = Project_from_path(tree)
PreprocessAgrees == pc = "done" => new_page = Page_preprocess(page)
RenderAgrees ==
    rendered # NoResult =>
        rendered = Theme_render(rendering.theme, rendering.config, rendering.pages)
WriteAgrees ==
    (pc = "done" /\ written # NoResult) =>
        /\ output_dir = Output_to_path(rendered.val, NoDir).dir
        /\ written = Output_to_path(rendered.val, NoDir).result

\* C29: in the build command the output directory changes only in the step
\* that writes the output, which is taken only when the project was loaded
\* and preprocessed and every page and the index were rendered; a build in
\* which one of these fails ends there, and leaves the output directory as
\* it found it.
C29_OutputTouchedLast ==
    /\ [][output_dir' # output_dir =>
             (pc = "rendered" /\ project.tag = "ok" /\ rendered.tag = "ok")]_vars
    /\ []((pc = "done" /\ (project.tag # "ok" \/ rendered.tag # "ok")) =>
             (written = NoResult /\ output_dir \in {NoDir, StaleDir}))

\* C29: a build has ended at Project::render, with the output directory of
\* an earlier run in place
C29_Witness ==
    /\ pc = "done" /\ project.tag = "ok" /\ rendered.tag = "err"
    /\ written = NoResult /\ output_dir = StaleDir

(***************************************************************************)
(* renderer.rs: the Markdown links fixed for HTML                          *)
(***************************************************************************)
MaxUrlTokens == 4

\* the positions of a URL at which `.md` stands
MdPositions(u) ==
    {i \in 1..Len(u) : i + 2 <= Len(u) /\ u[i] = "." /\ u[i + 1] = "m" /\ u[i + 2] = "d"}

\* fix_markdown_url: the regular expression (?P<link>.*)\.md(?P<anchor>#.*)?
\* is not anchored; its match starts at the start of the URL, `link` being
\* greedy runs to the last `.md`, and `anchor` is what follows when that
\* starts with `#`.  The URL returned is made of the two groups alone.  (A
\* URL given by the Markdown parser holds no line break.)
fix_markdown_url(u) ==
    IF MdPositions(u) = {} THEN u
    ELSE LET i == Max(MdPositions(u))
             link == Sub(u, 1, i - 1)
             anchor == IF i + 3 <= Len(u) /\ u[i + 3] = "#" THEN Sub(u, i + 3, Len(u))
                       ELSE <<>>
         IN  link \o <<".", "h", "t", "m", "l">> \o anchor

\* fix_markdown_links: the start of a link and the start of an image have
\* their URL fixed; every other event is returned as it is
fix_markdown_links(ev) ==
    IF ev.kind \in {"Start(Link)", "Start(Image)"}
    THEN [kind |-> ev.kind, url |-> fix_markdown_url(ev.url)]
    ELSE ev

UrlTokens == { <<"a">>, <<"x">>, <<".">>, <<"#">>, <<".", "m", "d">> }

LinkUrls == {Concat(q) : q \in SeqsUpTo(UrlTokens, MaxUrlTokens)}

Events ==
    {[kind |-> k, url |-> u] : k \in {"Start(Link)", "Start(Image)", "Text"}, u \in LinkUrls}

InitLinks ==
    /\ pc = "start"
    /\ event \in Events /\ fixed = NoResult
    /\ self_path = NoResult /\ url = NoResult /\ root_url = NoResult
    /\ IdleRaw /\ IdleRange /\ IdlePre /\ IdleProj /\ IdleRender

\* Renderer::render maps fix_markdown_links over the events of the parser
FixMarkdownLinks ==
    /\ pc = "start"
    /\ fixed' = fix_markdown_links(event)
    /\ pc' = "done"
    /\ UNCHANGED <<event, self_path, url, root_url, rawVars, rangeVars, preVars, projVars,
                   renderVars>>

NextLinks == FixMarkdownLinks

SpecLinks == InitLinks /\ [][NextLinks]_vars

\* a URL with `.md` at its end, or with `.md` directly before a fragment
EndsInMd(u, i) == i \in MdPositions(u) /\ (i + 2 = Len(u) \/ u[i + 3] = "#")

\* C30: the link fixer changes the URL of a link or an image only by putting
\* `.html` for a `.md` that ends the URL or stands directly before a
\* `#fragment`, the fragment kept; every other URL comes back as it was.
C30_OnlyMdExtension ==
    (pc = "done" /\ fixed # event) =>
        /\ fixed.kind = event.kind
        /\ \E i \in 1..Len(event.url) :
              /\ EndsInMd(event.url, i)
              /\ fixed.url = Sub(event.url, 1, i - 1) \o <<".", "h", "t", "m", "l">>
                                \o Sub(event.url, i + 3, Len(event.url))

\* the events of other kinds are returned as they are, and a URL without
\* `.md` is kept
LinksKept ==
    (pc = "done" /\ (event.kind = "Text" \/ MdPositions(event.url) = {})) => fixed = event

\* a URL whose last `.md` ends it or stands before a fragment gets `.html`
\* there, the fragment kept
LinksFixed ==
    (pc = "done" /\ event.kind # "Text" /\ MdPositions(event.url) # {}
       /\ EndsInMd(event.url, Max(MdPositions(event.url)))) =>
        LET i == Max(MdPositions(event.url))
        IN  fixed.url = Sub(event.url, 1, i - 1) \o <<".", "h", "t", "m", "l">>
                           \o Sub(event.url, i + 3, Len(event.url))

(***************************************************************************)
(* toml::to_string_pretty for a FrontMatter, and Display for FrontMatter   *)
(***************************************************************************)
\* the characters of keys in the order of their bytes
CharOrder ==
    <<"1", "a", "c", "d", "e", "i", "j", "k", "l", "n", "o", "p", "r", "s", "t", "x">>

Rank(c) == CHOOSE k \in 1..Len(CharOrder) : CharOrder[k] = c

RECURSIVE KeyLess(_, _)
KeyLess(a, b) ==
    IF a = <<>> THEN b # <<>>
    ELSE IF b = <<>> THEN FALSE
    ELSE IF a[1] = b[1] THEN KeyLess(Tail(a), Tail(b))
    ELSE Rank(a[1]) < Rank(b[1])

\* the keys of a table in the order a BTreeMap gives them
RECURSIVE SortKeys(_)
SortKeys(keys) ==
    IF keys = {} THEN <<>>
    ELSE LET least == CHOOSE k \in keys : \A o \in keys \ {k} : KeyLess(k, o)
         IN  <<least>> \o SortKeys(keys \ {least})

\* a value in the pretty form: a string without quote, line break or control
\* character is written as a literal string
toml_value_pretty(type, val) ==
    IF type = "string" THEN <<"'">> \o val \o <<"'">> ELSE val

toml_key_value(key, type, val) ==
    key \o <<" ", "=", " ">> \o toml_value_pretty(type, val) \o <<"\n">>

\* the lines of the values of a table, which is the top level when top is
\* empty, in the order of the keys
RECURSIVE toml_values(_, _, _)
toml_values(table, top, keys) ==
    IF keys = <<>> THEN <<>>
    ELSE LET e == CHOOSE x \in table :
                      IF top = <<>> THEN x.key = Head(keys) /\ x.sub = <<>>
                      ELSE x.key = top[1] /\ x.sub = <<Head(keys)>>
         IN  toml_key_value(Head(keys), e.type, e.val) \o toml_values(table, top, Tail(keys))

\* the tables of a table, each with its header, a blank line standing before
\* a header that is not the first line written
RECURSIVE toml_tables(_, _, _)
toml_tables(table, keys, out) ==
    IF keys = <<>> THEN out
    ELSE LET members == {x.sub[1] : x \in {y \in table : y.key = Head(keys) /\ y.sub # <<>>}}
         IN  toml_tables(table, Tail(keys),
                         out \o (IF out = <<>> THEN <<>> ELSE <<"\n">>)
                             \o <<"[">> \o Head(keys) \o <<"]", "\n">>
                             \o toml_values(table, <<Head(keys)>>, SortKeys(members)))

\* Serialize for FrontMatter, to the pretty serializer: the fields that are
\* Some in the order of the struct, then rest flattened, its values before
\* its tables
FrontMatter_to_string_pretty(self) ==
    LET field(key, option) ==
            IF option.some THEN toml_key_value(key, "string", option.val) ELSE <<>>
        date == IF self.date.some THEN Some(NaiveDate_fmt(self.date.val)) ELSE None
        values == {x.key : x \in {y \in self.rest : y.sub = <<>> /\ y.type # "table"}}
        tables == {x.key : x \in {y \in self.rest : y.sub = <<>> /\ y.type = "table"}}
    IN  toml_tables(self.rest, SortKeys(tables),
                    field(Title, self.title) \o field(Description, self.description)
                        \o field(Date, date) \o field(Kind, self.kind)
                        \o toml_values(self.rest, <<>>, SortKeys(values)))

\* a variant that ends with the delimiter
FrontMatter_fmt_open(self) == Delim \o <<"\n">> \o FrontMatter_to_string_pretty(self) \o Delim

\* Display for FrontMatter
FrontMatter_fmt(self) ==
    Delim \o <<"\n">> \o FrontMatter_to_string_pretty(self) \o Delim \o <<"\n">>

\* PartialEq for toml::Value, derived: a float that is NaN equals no float
Value_eq(a, b) == a = b /\ \A x \in a : ~(x.type = "float" /\ x.val = NaN)

\* PartialEq for FrontMatter, derived
FrontMatter_eq(a, b) ==
    /\ a.title = b.title /\ a.description = b.description
    /\ a.date = b.date /\ a.kind = b.kind
    /\ Value_eq(a.rest, b.rest)

(***************************************************************************)
(* SpecFrontMatter: a FrontMatter is written and parsed back               *)
(***************************************************************************)
\* the entries of rest: an integer, a string, NaN, a table and a value of it
RestEntries ==
    { Entry(<<"x">>, <<>>, "integer", <<"1">>),
      Entry(<<"a">>, <<>>, "string", <<"1">>),
      Entry(<<"n">>, <<>>, "float", NaN),
      Entry(<<"p">>, <<>>, "table", <<>>),
      Entry(<<"p">>, << <<"x">> >>, "integer", <<"1", "1">>) }

Rests ==
    {r \in SUBSET RestEntries :
        \A x \in r : x.sub # <<>> => \E y \in r : y.key = x.key /\ y.type = "table"}

FrontMatters ==
    {[title |-> ti, description |-> de, date |-> da, kind |-> ki, rest |-> r] :
        ti \in {None, Some(<<"a", " ", "1">>), Some(Delim)},
        de \in {None, Some(<<>>)},
        da \in {None, Some([year |-> 2020, month |-> 3, day |-> 21])},
        ki \in {None, Some(<<"p", "o", "s", "t">>)},
        r \in Rests}

InitFrontMatter ==
    /\ pc = "start"
    /\ front_matter \in FrontMatters
    /\ s = NoResult /\ raw_page = NoResult
    /\ IdleRange /\ IdlePre /\ IdleProj /\ IdleUrl /\ IdleRender

\* front_matter.to_string()
DisplayFrontMatter ==
    /\ pc = "start"
    /\ s' = FrontMatter_fmt(front_matter)
    /\ pc' = "written"
    /\ UNCHANGED <<raw_page, front_matter, rangeVars, preVars, projVars, urlVars, renderVars>>

\* the text written is parsed as a page
ParseWritten ==
    /\ pc = "written"
    /\ raw_page' = RawPage_from_str(s)
    /\ pc' = "done"
    /\ UNCHANGED <<s, front_matter, rangeVars, preVars, projVars, urlVars, renderVars>>

NextFrontMatter == DisplayFrontMatter \/ ParseWritten

SpecFrontMatter == InitFrontMatter /\ [][NextFrontMatter]_vars

(***************************************************************************)
(* Claims about the text of a FrontMatter                                  *)
(***************************************************************************)
\* the text written for a FrontMatter parses to the fields of the same
\* values and to the same table
WrittenParsesBack ==
    pc = "done" =>
        raw_page = Ok([front_matter |-> front_matter, contents |-> <<>>])

\* C23 as stated: writing a FrontMatter with Display and parsing the text
\* gives a FrontMatter equal to it, whatever its fields and whatever scalars
\* and tables its rest holds.
C23_RoundTrip ==
    pc = "done" =>
        /\ raw_page.tag = "ok"
        /\ FrontMatter_eq(raw_page.val.front_matter, front_matter)

\* C23: writing a FrontMatter whose rest holds no NaN with Display and
\* parsing the text gives a FrontMatter equal to it, whichever of its
\* fields are present and whatever integers, strings and tables its rest
\* holds.
C23_RoundTripWithoutNaN ==
    (pc = "done" /\ \A x \in front_matter.rest : x.val # NaN) =>
        /\ raw_page.tag = "ok"
        /\ FrontMatter_eq(raw_page.val.front_matter, front_matter)

\* C23: a FrontMatter with a title, a date, a value and a table with a value
\* has been written and parsed back
C23_Witness ==
    /\ pc = "done"
    /\ front_matter.title = Some(Delim) /\ front_matter.date.some
    /\ front_matter.rest = RestEntries \ {Entry(<<"n">>, <<>>, "float", NaN)}
    /\ raw_page.tag = "ok"
    /\ FrontMatter_eq(raw_page.val.front_matter, front_matter)

(***************************************************************************)
(* SpecKeys: one TOML text is parsed as the front matter of a page and as  *)
(* a configuration file                                                    *)
(***************************************************************************)
MaxKeyLines == 3

\* the lines of the texts: the keys FrontMatter names with values of their
\* type and of another, a key it does not name, and two table headers
KeyLines ==
    { <<"t", "i", "t", "l", "e", " ", "=", " ", "\"", "a", "\"", "\n">>,
      <<"t", "i", "t", "l", "e", " ", "=", " ", "1", "\n">>,
      <<"d", "e", "s", "c", "r", "i", "p", "t", "i", "o", "n", " ", "=", " ", "\"", "a", "\"", "\n">>,
      <<"d", "a", "t", "e", " ", "=", " ", "\"", "2", "0", "2", "0", "-", "0", "3", "-", "2", "1", "\"", "\n">>,
      <<"d", "a", "t", "e", " ", "=", " ", "\"", "1", "\"", "\n">>,
      <<"k", "i", "n", "d", " ", "=", " ", "\"", "a", "\"", "\n">>,
      <<"x", " ", "=", " ", "1", "\n">>,
      <<"[", "p", "]", "\n">>,
      <<"[", "p", "r", "o", "j", "e", "c", "t", "]", "\n">> }

KeyTexts == {Concat(q) : q \in SeqsUpTo(KeyLines, MaxKeyLines)}

InitKeys ==
    /\ pc = "start"
    /\ \E text \in KeyTexts :
          /\ s = Delim \o <<"\n">> \o text \o Delim \o <<"\n">>
          /\ tree = [config |-> Text(text), theme |-> <<Missing, Missing, Missing, Missing>>,
                     src |-> <<>>]
    /\ raw_page = NoResult /\ front_matter = NoResult
    /\ visited = 0 /\ config = NoResult /\ theme = NoResult
    /\ pages = <<>> /\ reads = <<>> /\ project = NoResult
    /\ IdleRange /\ IdlePre /\ IdleUrl /\ IdleRender

\* the page is parsed
ParsePageKeys ==
    /\ raw_page = NoResult
    /\ raw_page' = RawPage_from_str(s)
    /\ pc' = IF config = NoResult THEN "start" ELSE "done"
    /\ UNCHANGED <<s, front_matter, projVars, rangeVars, preVars, urlVars, renderVars>>

\* the configuration file is read and parsed
ParseConfigKeys ==
    /\ config = NoResult
    /\ config' = FromPath_from_path(tree.config, "RawConfig")
    /\ pc' = IF raw_page = NoResult THEN "start" ELSE "done"
    /\ UNCHANGED <<tree, visited, theme, pages, reads, project,
                   rawVars, rangeVars, preVars, urlVars, renderVars>>

NextKeys == ParsePageKeys \/ ParseConfigKeys

SpecKeys == InitKeys /\ [][NextKeys]_vars

(***************************************************************************)
(* Claims about the keys of a front matter and of a configuration          *)
(***************************************************************************)
\* the entries of the text parsed, and its top-level keys
TextEntries == toml_from_str(tree.config.text).table
TopKeys == {TextEntries[k].key : k \in 1..Len(TextEntries)}

\* named is the set of keys that go to fields; every entry under another
\* key is in rest, and rest holds nothing else
RestIsTheOthers(rest, named) ==
    /\ \A k \in 1..Len(TextEntries) :
          TextEntries[k].key \notin named => TextEntries[k] \in rest
    /\ \A x \in rest :
          x.key \notin named /\ \E k \in 1..Len(TextEntries) : TextEntries[k] = x

\* C25: when a front-matter block parses, each of `title`, `description`,
\* `date` and `kind` that the block holds is in its field with its value,
\* each that it does not hold leaves its field None, none of them is a key
\* of rest, and every other top-level key is in rest with its value and
\* nothing else is; when the same text parses as a configuration, the same
\* holds with `project` as the one key that goes to a field.
C25_KeysPartitioned ==
    /\ (raw_page # NoResult /\ raw_page.tag = "ok") =>
          /\ \A key \in RecognisedKeys :
                IF key \in TopKeys
                THEN LET e == EntryOf(TextEntries, key, <<>>)
                     IN  /\ e.type = "string"
                         /\ FieldOf(raw_page.val.front_matter, key) =
                               IF key = Date THEN Some(NaiveDate_from_str(e.val).val)
                               ELSE Some(e.val)
                ELSE FieldOf(raw_page.val.front_matter, key) = None
          /\ RestIsTheOthers(raw_page.val.front_matter.rest, RecognisedKeys)
    /\ (config # NoResult /\ config.tag = "ok") =>
          /\ IF ProjectKey \in TopKeys
             THEN /\ EntryOf(TextEntries, ProjectKey, <<>>).type = "table"
                  /\ config.val.project.title =
                        IF Defined(TextEntries, ProjectKey, <<Title>>)
                        THEN Some(EntryOf(TextEntries, ProjectKey, <<Title>>).val)
                        ELSE None
             ELSE config.val.project = ProjectConfig_default
          /\ RestIsTheOthers(config.val.rest, {ProjectKey})

\* C25: a text with a title, a `project` table and another key has been
\* parsed both ways
C25_Witness ==
    /\ pc = "done" /\ raw_page.tag = "ok" /\ config.tag = "ok"
    /\ TopKeys = {Title, ProjectKey, <<"x">>}
    /\ raw_page.val.front_matter.title.some
    /\ raw_page.val.front_matter.rest # {} /\ config.val.rest # {}
====
